---------------------------- MODULE Spec2Model ----------------------------
(***************************************************************************)
(* HTP: the orchestrator loop (src/HTP.py) and the card detector with its  *)
(* detection buffer, seat registry and table-format classifier             *)
(* (src/plugins/card_detector_plugin.py).                                  *)
(*                                                                         *)
(* Representation.  Pixel positions are whole pixels (Python floats are    *)
(* floored to the pixel where a quotient is not whole); normalised         *)
(* coordinates and classifier distances are in units of 1/10000;           *)
(* confidences are in percent; time is in whole seconds.  Comparisons      *)
(* against fractional thresholds are cross-multiplied, so they are exact   *)
(* on these values.  Python compares rounded binary floats, so the inputs  *)
(* of the model keep away from positions that lie exactly on a threshold,  *)
(* where rounding and exact arithmetic can disagree.                       *)
(***************************************************************************)
EXTENDS Integers, Sequences, FiniteSets, TLC

VARIABLES
    \* ---- HTPOrchestrator (src/HTP.py)
    running,        \* self.running
    stRunning,      \* state["running"]
    pc,             \* position of main_loop
    idx,            \* position of the for loop over load_order
    heroDispatch,   \* the local hero_active sampled before the plugins run
    errors,         \* state["errors"]
    cameraOk,       \* self.camera is not None
    camStopped,     \* CameraStream.stopped
    stopPc,         \* position of a concurrent stop() call
    ticks,          \* ticks completed
    \* ---- shared state read and written by the plugins
    frame,          \* state["frame"]: NoFrame or <<width, height>>
    detections,     \* state["detections"]
    heroActive,     \* state["hero_active"]
    gs,             \* state["game_state"]
    dbg,            \* state["debug"] (the card detector's entries)
    \* ---- CardDetectorPlugin
    history,        \* self.detection_history
    seats,          \* self.seats
    nextId,         \* identity of the next Seat object
    lastHeroSeen,   \* self.last_hero_seen_time
    detectedFormat, \* self.detected_table_format
    layoutCfg,      \* self.hero_region and self.board_row, set by setup()
    clock,          \* time.time()
    \* ---- observation of the last steps (no counterpart in the program)
    invoked,        \* stages whose process() was called in this tick
    raised,         \* stages whose process() raised in this tick
    stopAt,         \* where the loop was when stop() was called
    obs,            \* what the last registry evaluation was given and produced
    env,            \* how much of the environment's budget has been used
    \* ---- the dashboard thread (src/plugins/HTPGUI.py)
    seen,           \* the game_state the dashboard read last, with what the
                    \* tick before it and the tick under way published
    published,      \* state["game_state"] as the last finished tick left it
                    \* (kept by the steps that split a tick for the dashboard)
    \* ---- the camera and its producer thread (src/plugins/camera.py)
    cam             \* CameraStream: self.stopped, self.frame, whether
                    \* self.stream is open, and where update() and stop() are

vars == <<running, stRunning, pc, idx, heroDispatch, errors, cameraOk,
          camStopped, stopPc, ticks, frame, detections, heroActive, gs, dbg,
          history, seats, nextId, lastHeroSeen, detectedFormat, layoutCfg,
          clock, invoked, raised, stopAt, obs, env, seen, published,
          cam>>

-----------------------------------------------------------------------------
(* Program constants *)

BUFFER_SIZE == 6
CONFIRMATION_THRESHOLD == 2
MIN_CONFIDENCE_NORMAL == 40
MIN_CONFIDENCE_BACK == 25
SEAT_CONFIRMED_TIMEOUT == 300
SEAT_CANDIDATE_TIMEOUT == 2
SEAT_CREATION_FRAMES == 8
GridSize == 30
HeroStickySeconds == 3
HeroMaxCards == 2
BoardMaxCards == 5
ErrLogKeep == 50
PluginErrLogKeep == 200

CardBack == "card_back"
Detectando == "Detectando..."
NoFrame == <<>>
NoFormat == "(unset)"

\* CARD_LABELS: the labels the model's detections use, out of the 52 cards
\* and the face-down sentinel.
CARD_LABELS == {"Ah", "Kd", "Qs", "7c", "2h", "9d", "Ts", "3c", CardBack}

-----------------------------------------------------------------------------
(* Sequence helpers *)

Abs(n) == IF n < 0 THEN 0 - n ELSE n

Range(s) == {s[i] : i \in DOMAIN s}

RECURSIVE SumSeq(_)
SumSeq(s) == IF s = <<>> THEN 0 ELSE Head(s) + SumSeq(Tail(s))

RECURSIVE Concat(_)
Concat(ss) == IF ss = <<>> THEN <<>> ELSE Head(ss) \o Concat(Tail(ss))

\* s[-n:]
LastN(s, n) == IF Len(s) <= n THEN s ELSE SubSeq(s, Len(s) - n + 1, Len(s))

\* s[:n]
FirstN(s, n) == IF Len(s) <= n THEN s ELSE SubSeq(s, 1, n)

\* list.sort(key=lambda v: v.x) and sorted(...): stable, ascending
RECURSIVE InsertByX(_, _)
InsertByX(sorted, it) ==
    IF sorted = <<>> THEN <<it>>
    ELSE IF Head(sorted).x <= it.x
         THEN <<Head(sorted)>> \o InsertByX(Tail(sorted), it)
         ELSE <<it>> \o sorted

RECURSIVE SortByX(_)
SortByX(s) ==
    IF s = <<>> THEN <<>>
    ELSE InsertByX(SortByX(SubSeq(s, 1, Len(s) - 1)), s[Len(s)])

-----------------------------------------------------------------------------
(* CardDetectorPlugin.process, step 1: collecting the tick's detections *)

\* A detection is [box |-> <<x1, y1, x2, y2>>, label |-> string, conf |-> percent].

\* self.board_y_min, self.board_y_max, self.hero_y_min, in 1/100
BoardYMin == 30
BoardYMax == 60
HeroYMin == 65

NoRegion == <<>>

\* No table_layouts entry configured: hero_region and board_row are None.
NoLayoutCfg == [hero_region |-> NoRegion, board_row |-> NoRegion]

\* _es_label_carta
EsLabelCarta(label) == label \in CARD_LABELS \/ label = CardBack

\* _clasificar_por_layout: "hero", "board" or "none" (Python None).
\* hero_region is <<hx1, hy1, hx2, hy2>> and board_row is
\* [y_center, height, first_x, last_x], all in 1/100 of the frame;
\* by1, by2 = y_center -/+ height / 1.4 are compared after multiplying by 7.
ClasificarPorLayout(cx, cy, ancho, alto, cfg) ==
    IF ancho <= 0 \/ alto <= 0 THEN "none"
    ELSE IF /\ cfg.hero_region # NoRegion
            /\ cfg.hero_region[1] * ancho <= 100 * cx
            /\ 100 * cx <= cfg.hero_region[3] * ancho
            /\ cfg.hero_region[2] * alto <= 100 * cy
            /\ 100 * cy <= cfg.hero_region[4] * alto
         THEN "hero"
    ELSE IF /\ cfg.board_row # NoRegion
            /\ cfg.board_row.first_x * ancho <= 100 * cx
            /\ 100 * cx <= cfg.board_row.last_x * ancho
            /\ (7 * cfg.board_row.y_center - 5 * cfg.board_row.height) * alto
                  <= 700 * cy
            /\ 700 * cy
                  <= (7 * cfg.board_row.y_center + 5 * cfg.board_row.height) * alto
         THEN "board"
    ELSE "none"

\* _clasificar_por_fallback
ClasificarPorFallback(cy, alto) ==
    IF alto <= 0 THEN "none"
    ELSE IF 100 * cy >= HeroYMin * alto THEN "hero"
    ELSE IF BoardYMin * alto <= 100 * cy /\ 100 * cy <= BoardYMax * alto
         THEN "board"
    ELSE "none"

\* the confidence floor of a label
MinConf(label) ==
    IF label = CardBack THEN MIN_CONFIDENCE_BACK ELSE MIN_CONFIDENCE_NORMAL

\* whether the loop body reaches frame_items.append for this detection
Accepted(det) ==
    /\ det.conf >= MinConf(det.label)
    /\ Len(det.box) = 4
    /\ EsLabelCarta(det.label)

\* the (cx, cy, label, ctype) appended for an accepted detection
FrameItem(det, ancho, alto, cfg) ==
    LET cx == (det.box[1] + det.box[3]) \div 2
        cy == (det.box[2] + det.box[4]) \div 2
        byLayout == ClasificarPorLayout(cx, cy, ancho, alto, cfg)
        clasif == IF byLayout = "none" THEN ClasificarPorFallback(cy, alto)
                  ELSE byLayout
    IN  [x |-> cx, y |-> cy, label |-> det.label,
         ctype |-> IF clasif = "none" THEN "opponent" ELSE clasif]

RECURSIVE FrameItems(_, _, _, _)
FrameItems(dets, ancho, alto, cfg) ==
    IF dets = <<>> THEN <<>>
    ELSE (IF Accepted(Head(dets))
          THEN <<FrameItem(Head(dets), ancho, alto, cfg)>> ELSE <<>>)
         \o FrameItems(Tail(dets), ancho, alto, cfg)

\* the buffer kept one tick longer (a faulty variant)
BufferAppendLong(hist, items) == LastN(Append(hist, items), BUFFER_SIZE + 1)

\* deque(maxlen=BUFFER_SIZE).append
BufferAppend(hist, items) == LastN(Append(hist, items), BUFFER_SIZE)

-----------------------------------------------------------------------------
(* _consolidar_buffer *)

\* whether an item falls in a cluster: both offsets from the running centroid
\* (sum / count) are under grid_size
InCluster(cl, it) ==
    /\ Abs(it.x * cl.count - cl.sum_x) < GridSize * cl.count
    /\ Abs(it.y * cl.count - cl.sum_y) < GridSize * cl.count

JoinCluster(cl, it) ==
    [labels |-> Append(cl.labels, it.label), sum_x |-> cl.sum_x + it.x,
     sum_y |-> cl.sum_y + it.y, count |-> cl.count + 1]

NewCluster(it) ==
    [labels |-> <<it.label>>, sum_x |-> it.x, sum_y |-> it.y, count |-> 1]

\* the inner for loop: the item joins the first cluster, in creation order,
\* that it falls in (break), and starts a new one when there is none
RECURSIVE AddToClusters(_, _)
AddToClusters(clusters, it) ==
    IF clusters = <<>> THEN <<NewCluster(it)>>
    ELSE IF InCluster(Head(clusters), it)
         THEN <<JoinCluster(Head(clusters), it)>> \o Tail(clusters)
         ELSE <<Head(clusters)>> \o AddToClusters(Tail(clusters), it)

RECURSIVE BuildClusters(_, _)
BuildClusters(clusters, items) ==
    IF items = <<>> THEN clusters
    ELSE BuildClusters(AddToClusters(clusters, Head(items)), Tail(items))

CountOf(labels, l) == Cardinality({i \in DOMAIN labels : labels[i] = l})

\* Counter(labels).most_common(1)[0][0]: the highest count, and among equal
\* counts the label seen first
MostCommon(labels) ==
    LET best == CHOOSE i \in DOMAIN labels :
                  /\ \A j \in DOMAIN labels :
                        CountOf(labels, labels[j]) <= CountOf(labels, labels[i])
                  /\ \A j \in 1..(i - 1) :
                        CountOf(labels, labels[j]) < CountOf(labels, labels[i])
    IN  labels[best]

\* a cluster resolved only above the threshold (a faulty variant)
ClusterConfirmedStrict(cl) == cl.count > CONFIRMATION_THRESHOLD

\* whether a cluster is resolved into the output
ClusterConfirmed(cl) == cl.count >= CONFIRMATION_THRESHOLD

\* a cluster resolved to the label of its first member (a faulty variant)
ResolveFirst(cl) ==
    [x |-> cl.sum_x \div cl.count, y |-> cl.sum_y \div cl.count,
     label |-> cl.labels[1]]

Resolve(cl) ==
    [x |-> cl.sum_x \div cl.count, y |-> cl.sum_y \div cl.count,
     label |-> MostCommon(cl.labels)]

RECURSIVE ResolveAll(_)
ResolveAll(clusters) ==
    IF clusters = <<>> THEN <<>>
    ELSE (IF ClusterConfirmed(Head(clusters))
          THEN <<Resolve(Head(clusters))>> ELSE <<>>)
         \o ResolveAll(Tail(clusters))

\* candidates[ctype]: the buffer's items of one region, oldest tick first
Candidates(hist, ctype) ==
    SelectSeq(Concat(hist), LAMBDA it : it.ctype = ctype)

ClustersOf(hist, ctype) == BuildClusters(<<>>, Candidates(hist, ctype))

\* final_results[ctype]
ConsolidarBuffer(hist, ctype) == ResolveAll(ClustersOf(hist, ctype))

-----------------------------------------------------------------------------
(* _agrupar_rivales *)

Dist2(a, b) == (a.x - b.x) * (a.x - b.x) + (a.y - b.y) * (a.y - b.y)

\* math.hypot(...) < ancho * 0.18, squared; the first conjunct (d < ancho / 5)
\* follows from the second and keeps its product small
NearHand(a, b, ancho) ==
    /\ 25 * Dist2(a, b) < ancho * ancho
    /\ 2500 * Dist2(a, b) < 81 * ancho * ancho

\* the groups as positions in the sorted list: each unused card, left to
\* right, takes the nearest unused card to its right within the threshold
\* (the first one among equally near ones)
RECURSIVE AgruparDesde(_, _, _, _)
AgruparDesde(items, i, used, ancho) ==
    IF i > Len(items) THEN <<>>
    ELSE IF i \in used THEN AgruparDesde(items, i + 1, used, ancho)
    ELSE LET cands == {j \in (i + 1)..Len(items) :
                         j \notin used /\ NearHand(items[i], items[j], ancho)}
             best == CHOOSE j \in cands :
                       \A k \in cands :
                          \/ Dist2(items[i], items[j]) < Dist2(items[i], items[k])
                          \/ /\ Dist2(items[i], items[j]) = Dist2(items[i], items[k])
                             /\ j <= k
         IN  IF cands = {}
             THEN <<(<<i>>)>> \o AgruparDesde(items, i + 1, used \cup {i}, ancho)
             ELSE <<(<<i, best>>)>>
                  \o AgruparDesde(items, i + 1, used \cup {i, best}, ancho)

GruposIdx(items, ancho) == AgruparDesde(SortByX(items), 1, {}, ancho)

\* cartas without the phantom partner of a lone card (a faulty variant)
CartasAsSeen(sorted, g) == [p \in DOMAIN g |-> sorted[g[p]].label]

\* cartas: the labels of a group, a lone card duplicated
Cartas(sorted, g) ==
    IF Len(g) = 1 THEN <<sorted[g[1]].label, sorted[g[1]].label>>
    ELSE <<sorted[g[1]].label, sorted[g[2]].label>>

AgruparRivales(items, ancho) ==
    LET sorted == SortByX(items)
        grupos == GruposIdx(items, ancho)
    IN  [k \in DOMAIN grupos |-> Cartas(sorted, grupos[k])]

-----------------------------------------------------------------------------
(* _inferir_formato_geometrico; coordinates and distances in 1/10000 *)

LayoutNames == <<"3-Max", "4-Max", "5-Max", "6-Max", "8-Max", "9-Max">>

HeroPoint == <<5000, 6800>>

GG_LAYOUTS(nombre) ==
    CASE nombre = "3-Max" -> <<HeroPoint, <<2000, 3500>>, <<8000, 3500>>>>
      [] nombre = "4-Max" -> <<HeroPoint, <<1500, 4500>>, <<5000, 2500>>,
                               <<8500, 4500>>>>
      [] nombre = "5-Max" -> <<HeroPoint, <<1800, 5500>>, <<1800, 2800>>,
                               <<8200, 2800>>, <<8200, 5500>>>>
      [] nombre = "6-Max" -> <<HeroPoint, <<2800, 6500>>, <<1200, 4500>>,
                               <<3500, 2500>>, <<6500, 2500>>, <<8800, 4500>>,
                               <<7200, 6500>>>>
      [] nombre = "8-Max" -> <<HeroPoint, <<3000, 6600>>, <<1500, 5000>>,
                               <<1500, 3000>>, <<4000, 2200>>, <<6000, 2200>>,
                               <<8500, 3000>>, <<8500, 5000>>, <<7000, 6600>>>>
      [] nombre = "9-Max" -> <<HeroPoint, <<3200, 6600>>, <<1600, 5200>>,
                               <<1400, 3200>>, <<3000, 2200>>, <<7000, 2200>>,
                               <<8600, 3200>>, <<8400, 5200>>, <<6800, 6600>>>>

HeroTolerance == 1000
MatchRadius == 1500
UnexplainedPenalty == 50000
EmptySeatPenalty == 1000
RejectionCeiling == 30000
Infinity == 2000000000

RECURSIVE ISqrtIn(_, _, _)
ISqrtIn(n, lo, hi) ==
    IF lo >= hi THEN lo
    ELSE LET mid == (lo + hi + 1) \div 2
         IN  IF mid * mid <= n THEN ISqrtIn(n, mid, hi)
             ELSE ISqrtIn(n, lo, mid - 1)

\* the square of math.hypot; an offset of 20 match radii (3 frames) or more
\* counts as that much, far outside every threshold it is compared with
FarAway == 20 * MatchRadius

Hypot2(p, q) ==
    LET dx == Abs(p[1] - q[1])
        dy == Abs(p[2] - q[2])
    IN  IF dx >= FarAway \/ dy >= FarAway THEN FarAway * FarAway
        ELSE dx * dx + dy * dy

MinOf(S) == CHOOSE m \in S : \A n \in S : m <= n

\* the square of min([math.hypot(px-lx, py-ly) for lx, ly in layout])
MinDist2(p, layout) == MinOf({Hypot2(p, layout[k]) : k \in DOMAIN layout})

\* min_d < 0.15
IsMatch(p, layout) == MinDist2(p, layout) < MatchRadius * MatchRadius

\* min_d of a matched point, floored to the unit
MinDist(p, layout) == ISqrtIn(MinDist2(p, layout), 0, MatchRadius)

HeroPresent(puntos) ==
    \E k \in DOMAIN puntos :
        /\ Abs(puntos[k][1] - HeroPoint[1]) < HeroTolerance
        /\ Abs(puntos[k][2] - HeroPoint[2]) < HeroTolerance

\* puntos_test without the hero's seat appended (a faulty variant)
PuntosSinHero(puntos) == puntos

\* puntos_test
PuntosTest(puntos) ==
    IF HeroPresent(puntos) THEN puntos ELSE Append(puntos, HeroPoint)

\* matches and error_layout of one layout
LayoutMatches(pts, layout) ==
    LET hit == [k \in DOMAIN pts |-> IsMatch(pts[k], layout)]
    IN  [matches |-> Cardinality({k \in DOMAIN pts : hit[k]}),
         error |-> SumSeq([k \in DOMAIN pts |->
                             IF hit[k] THEN MinDist(pts[k], layout) ELSE 0])]

\* avg_error + unexplained_points_penalty + empty_seats_penalty
Score(nPts, nLayout, matches, error) ==
    error \div matches
    + (nPts - matches) * UnexplainedPenalty
    + (nLayout - matches) * EmptySeatPenalty

\* the for loop with score <= menor_score, so that the last of several
\* equally scoring layouts is kept (a faulty variant)
RECURSIVE MejorFitLast(_, _, _)
MejorFitLast(pts, k, acc) ==
    IF k > Len(LayoutNames) THEN acc
    ELSE LET layout == GG_LAYOUTS(LayoutNames[k])
             lm == LayoutMatches(pts, layout)
             score == Score(Len(pts), Len(layout), lm.matches, lm.error)
         IN  IF lm.matches > 0 /\ score <= acc[2]
             THEN MejorFitLast(pts, k + 1, <<LayoutNames[k], score>>)
             ELSE MejorFitLast(pts, k + 1, acc)

\* the for loop over GG_LAYOUTS.items(): <<mejor_fit, menor_score>> after the
\* layouts from position k on
RECURSIVE MejorFit(_, _, _)
MejorFit(pts, k, acc) ==
    IF k > Len(LayoutNames) THEN acc
    ELSE LET layout == GG_LAYOUTS(LayoutNames[k])
             lm == LayoutMatches(pts, layout)
             score == Score(Len(pts), Len(layout), lm.matches, lm.error)
         IN  IF lm.matches > 0 /\ score < acc[2]
             THEN MejorFit(pts, k + 1, <<LayoutNames[k], score>>)
             ELSE MejorFit(pts, k + 1, acc)

\* the best fit returned whatever its score (a faulty variant)
InferirSinTecho(puntos) ==
    IF puntos = <<>> THEN Detectando
    ELSE MejorFit(PuntosTest(puntos), 1, <<"Custom", Infinity>>)[1]

InferirFormatoGeometrico(puntos) ==
    IF puntos = <<>> THEN Detectando
    ELSE LET fit == MejorFit(PuntosTest(puntos), 1, <<"Custom", Infinity>>)
         IN  IF fit[2] > RejectionCeiling THEN Detectando ELSE fit[1]

-----------------------------------------------------------------------------
(* Seat and _gestionar_asientos *)

\* a seat that counts as a player from its creation (a faulty variant)
NewSeatConfirmed(id, x, y, now) ==
    [id |-> id, x |-> x, y |-> y, last |-> now, count |-> 1,
     confirmed |-> TRUE]

\* Seat.__init__
NewSeat(id, x, y, now) ==
    [id |-> id, x |-> x, y |-> y, last |-> now, count |-> 1,
     confirmed |-> FALSE]

\* Seat.update with the state recomputed from the count on every match
\* instead of latched (a faulty variant)
SeatUpdateRecomputed(s, x, y, now) ==
    [id |-> s.id,
     x |-> (9 * s.x + x) \div 10,
     y |-> (9 * s.y + y) \div 10,
     last |-> now,
     count |-> s.count + 1,
     confirmed |-> (s.count + 1 = SEAT_CREATION_FRAMES)]

\* Seat.update with the promotion one match late (a faulty variant)
SeatUpdateLate(s, x, y, now) ==
    [id |-> s.id,
     x |-> (9 * s.x + x) \div 10,
     y |-> (9 * s.y + y) \div 10,
     last |-> now,
     count |-> s.count + 1,
     confirmed |-> s.confirmed \/ (s.count + 1 > SEAT_CREATION_FRAMES)]

\* Seat.update without the refresh of last_seen_time (a faulty variant)
SeatUpdateStale(s, x, y, now) ==
    [id |-> s.id,
     x |-> (9 * s.x + x) \div 10,
     y |-> (9 * s.y + y) \div 10,
     last |-> s.last,
     count |-> s.count + 1,
     confirmed |-> s.confirmed \/ (s.count + 1 >= SEAT_CREATION_FRAMES)]

\* Seat.update
SeatUpdate(s, x, y, now) ==
    [id |-> s.id,
     x |-> (9 * s.x + x) \div 10,
     y |-> (9 * s.y + y) \div 10,
     last |-> now,
     count |-> s.count + 1,
     confirmed |-> s.confirmed \/ (s.count + 1 >= SEAT_CREATION_FRAMES)]

Centroid(group) ==
    [x |-> SumSeq([k \in DOMAIN group |-> group[k].x]) \div Len(group),
     y |-> SumSeq([k \in DOMAIN group |-> group[k].y]) \div Len(group)]

\* abs(item[0] - prev[0]) < ancho_img * MIN_SEAT_DISTANCE (0.12)
SameSeatCluster(prev, item, ancho) == 100 * Abs(item.x - prev.x) < 12 * ancho

\* step 1: the x-sorted items cut into runs of neighbours, each run averaged
RECURSIVE SpatialClusters(_, _, _)
SpatialClusters(sorted, group, ancho) ==
    IF sorted = <<>>
    THEN (IF group = <<>> THEN <<>> ELSE <<Centroid(group)>>)
    ELSE IF group = <<>> \/ SameSeatCluster(group[Len(group)], Head(sorted), ancho)
         THEN SpatialClusters(Tail(sorted), Append(group, Head(sorted)), ancho)
         ELSE <<Centroid(group)>>
              \o SpatialClusters(Tail(sorted), <<Head(sorted)>>, ancho)

CurrentClusters(opp_raw, ancho) == SpatialClusters(SortByX(opp_raw), <<>>, ancho)

\* dx < norm_thresh_x (ancho * 0.15) and dy < ancho * 0.2
WithinSeat(s, c, ancho) ==
    /\ 100 * Abs(s.x - c.x) < 15 * ancho
    /\ 10 * Abs(s.y - c.y) < 2 * ancho

\* matched_seat: the position in self.seats of the seat within tolerance with
\* the smallest dx (the first of equally near ones), 0 for None
MatchedSeat(ss, c, ancho) ==
    LET cands == {i \in DOMAIN ss : WithinSeat(ss[i], c, ancho)}
    IN  IF cands = {} THEN 0
        ELSE CHOOSE i \in cands :
               \A j \in cands :
                  \/ Abs(ss[i].x - c.x) < Abs(ss[j].x - c.x)
                  \/ Abs(ss[i].x - c.x) = Abs(ss[j].x - c.x) /\ i <= j

\* step 2: for (cx, cy) in current_clusters
RECURSIVE MatchClusters(_, _, _, _)
MatchClusters(clusters, acc, now, ancho) ==
    IF clusters = <<>> THEN acc
    ELSE LET c == Head(clusters)
             m == MatchedSeat(acc.seats, c, ancho)
         IN  IF m # 0
             THEN MatchClusters(Tail(clusters),
                      [seats |-> [acc.seats EXCEPT
                                    ![m] = SeatUpdate(acc.seats[m], c.x, c.y, now)],
                       nextId |-> acc.nextId,
                       matched |-> acc.matched \cup {acc.seats[m].id}],
                      now, ancho)
             ELSE MatchClusters(Tail(clusters),
                      [seats |-> Append(acc.seats,
                                        NewSeat(acc.nextId, c.x, c.y, now)),
                       nextId |-> acc.nextId + 1,
                       matched |-> acc.matched],
                      now, ancho)

\* step 3 with the short timeout applied to every seat (a faulty variant)
SeatKeptShort(s, now) == now - s.last < SEAT_CANDIDATE_TIMEOUT

\* step 3: whether the garbage collection keeps a seat
SeatKept(s, now) ==
    IF s.confirmed THEN now - s.last < SEAT_CONFIRMED_TIMEOUT
    ELSE now - s.last < SEAT_CANDIDATE_TIMEOUT

\* the entry of puntos_geom for a confirmed seat
Normalizado(s, ancho, alto) ==
    <<(s.x * 10000) \div ancho, (s.y * 10000) \div alto>>

PuntosGeom(kept, ancho, alto) ==
    LET conf == SelectSeq(kept, LAMBDA s : s.confirmed)
    IN  [k \in DOMAIN conf |-> Normalizado(conf[k], ancho, alto)]

ConfirmedCount(ss) == Cardinality({i \in DOMAIN ss : ss[i].confirmed})

\* _gestionar_asientos: the new self.seats, self.detected_table_format and
\* the returned count, with what the classifier was given
GestionarAsientos(opp_raw, ancho, alto, now, ss, nid, fmt) ==
    IF ancho <= 0 \/ alto <= 0
    THEN [seats |-> ss, nextId |-> nid, format |-> fmt, result |-> 0,
          evaluated |-> FALSE, puntos |-> <<>>, matched |-> {}]
    ELSE LET m == MatchClusters(CurrentClusters(opp_raw, ancho),
                                [seats |-> ss, nextId |-> nid, matched |-> {}],
                                now, ancho)
             kept == SelectSeq(m.seats, LAMBDA s : SeatKept(s, now))
             puntos == PuntosGeom(kept, ancho, alto)
         IN  [seats |-> kept, nextId |-> m.nextId,
              format |-> InferirFormatoGeometrico(puntos),
              result |-> ConfirmedCount(kept),
              evaluated |-> TRUE, puntos |-> puntos, matched |-> m.matched]

-----------------------------------------------------------------------------
(* CardDetectorPlugin.process *)

Labels(items) == [k \in DOMAIN items |-> items[k].label]

NotBack(it) == it.label # CardBack

\* hero_valid and board_valid: sorted by x, the sentinel dropped, truncated
HeroValid(hist) ==
    FirstN(SelectSeq(SortByX(ConsolidarBuffer(hist, "hero")), NotBack),
           HeroMaxCards)

\* board_valid without the filter and the truncation (a faulty variant)
BoardValidRaw(hist) == SortByX(ConsolidarBuffer(hist, "board"))

BoardValid(hist) ==
    FirstN(SelectSeq(SortByX(ConsolidarBuffer(hist, "board")), NotBack),
           BoardMaxCards)

Street(nb, previous) ==
    CASE nb = 0 -> "PREFLOP"
      [] nb = 3 -> "FLOP"
      [] nb = 4 -> "TURN"
      [] nb = 5 -> "RIVER"
      [] OTHER -> previous

PlayersInHand(nOpp, nHero, nb) ==
    LET n == nOpp + (IF nHero > 0 THEN 1 ELSE 0)
    IN  IF n < 2 /\ nb > 0 THEN 2 ELSE n

Max(a, b) == IF a >= b THEN a ELSE b

FinalActive(stack_count, confirmedSeats, nHero, pih) ==
    LET seats_active == confirmedSeats + (IF nHero > 0 THEN 1 ELSE 0)
        merged == Max(Max(stack_count, seats_active), pih)
    IN  IF merged < 2 THEN 2 ELSE merged

\* TableSizerPlugin.process on detections that hold no stack labels: the
\* stack count is the minimum, 2, and the format the default
TableSizerProcess(f, gsIn) ==
    IF f = NoFrame THEN gsIn
    ELSE [gsIn EXCEPT !.active_players = 2, !.table_format = "6-Max"]

NoObs == [op |-> "other", evaluated |-> FALSE, puntos |-> <<>>, matched |-> {}]

\* process(state) with state["frame"] = f, state["detections"] = dets,
\* state["game_state"] = gsIn and time.time() = now
CardDetectorProcess(f, dets, now, gsIn) ==
    IF f = NoFrame
    THEN /\ obs' = [NoObs EXCEPT !.op = "process"]
         /\ gs' = gsIn
         /\ UNCHANGED <<heroActive, dbg, history, seats, nextId,
                        lastHeroSeen, detectedFormat, layoutCfg>>
    ELSE LET ancho == f[1]
             alto == f[2]
             hist == BufferAppend(history,
                                  FrameItems(dets, ancho, alto, layoutCfg))
             my_cards == Labels(HeroValid(hist))
             board == Labels(BoardValid(hist))
             opp_raw == ConsolidarBuffer(hist, "opponent")
             grouped == AgruparRivales(opp_raw, ancho)
             pih == PlayersInHand(Len(grouped), Len(my_cards), Len(board))
         IN  \E reg \in {GestionarAsientos(opp_raw, ancho, alto, now, seats, nextId,
                                      detectedFormat)} :
             /\ history' = hist
             /\ IF Len(my_cards) >= 2
                THEN lastHeroSeen' = now /\ heroActive' = TRUE
                ELSE /\ lastHeroSeen' = lastHeroSeen
                     /\ heroActive' = (heroActive
                                        \/ now - lastHeroSeen < HeroStickySeconds)
             /\ seats' = reg.seats
             /\ nextId' = reg.nextId
             /\ detectedFormat' = reg.format
             /\ gs' = [my_cards |-> my_cards,
                       board |-> board,
                       opponents_cards |-> grouped,
                       street |-> Street(Len(board), gsIn.street),
                       players_in_hand |-> pih,
                       active_players |->
                           FinalActive(gsIn.active_players, reg.result,
                                       Len(my_cards), pih),
                       table_format |->
                           IF reg.format # Detectando THEN reg.format
                           ELSE gsIn.table_format]
             /\ dbg' = [confirmed_seats |-> reg.result,
                        total_seats_tracked |-> Len(reg.seats),
                        table_fmt_geo |-> reg.format]
             /\ obs' = [op |-> "process", evaluated |-> reg.evaluated,
                        puntos |-> reg.puntos, matched |-> reg.matched]
             /\ UNCHANGED layoutCfg

-----------------------------------------------------------------------------
(* Initial state: HTPOrchestrator.__init__ and the plugins' __init__/setup *)

\* the layouts of config["table_layouts"] the model is set up with
LayoutConfigs == {NoLayoutCfg}

\* time.time() at start-up, later than the sticky window after time 0
StartTime == 1000

NoEnv == [changes |-> 0, pauses |-> 0, nulls |-> 0, faults |-> 0]

\* the dashboard has read nothing yet
NoSnapshot == [read |-> FALSE]

\* no CameraStream has been constructed yet
NoCamera ==
    [upc |-> "new", spc |-> "idle", stopped |-> FALSE, opened |-> FALSE,
     released |-> FALSE, frame |-> NoFrame, grabbed |-> FALSE,
     got |-> NoFrame, out |-> NoFrame, reads |-> 0, late |-> FALSE]

Constructed(camera) ==
    /\ running = TRUE
    /\ stRunning = TRUE
    /\ pc = "while"
    /\ idx = 0
    /\ heroDispatch = FALSE
    /\ errors = <<>>
    /\ cameraOk = camera
    /\ camStopped = FALSE
    /\ stopPc = "idle"
    /\ ticks = 0
    /\ frame = NoFrame
    /\ detections = <<>>
    /\ heroActive = FALSE
    /\ gs = [my_cards |-> <<>>, board |-> <<>>, opponents_cards |-> <<>>,
             street |-> "PREFLOP", players_in_hand |-> 0,
             active_players |-> 0, table_format |-> NoFormat]
    /\ dbg = [confirmed_seats |-> 0, total_seats_tracked |-> 0,
              table_fmt_geo |-> Detectando]
    /\ history = <<>>
    /\ seats = <<>>
    /\ nextId = 1
    /\ lastHeroSeen = 0
    /\ detectedFormat = Detectando
    /\ layoutCfg \in LayoutConfigs
    /\ clock = StartTime
    /\ invoked = <<>>
    /\ raised = <<>>
    /\ stopAt = "none"
    /\ obs = NoObs
    /\ env = NoEnv
    /\ seen = NoSnapshot
    /\ published = gs
    /\ cam = NoCamera

\* the camera opened, or CameraStream raised and self.camera is None
Init == \E camera \in BOOLEAN : Constructed(camera)

-----------------------------------------------------------------------------
(* The seat registry over many ticks: every tick is one pass of main_loop in  *)
(* which the capture left frame f, the detector left dets and the card        *)
(* detector stage ran dt seconds after the previous tick.                     *)

Det(x, y, label, conf) ==
    [box |-> <<x - 20, y - 30, x + 20, y + 30>>, label |-> label, conf |-> conf]

TableFrame == <<1000, 800>>

\* one pass of main_loop as the card detector sees it: the table sizer and
\* then the card detector run on the tick's frame and detections
DetectorTick(f, dets, dt) ==
    /\ clock' = clock + dt
    /\ frame' = f
    /\ detections' = dets
    /\ ticks' = ticks + 1
    /\ CardDetectorProcess(f, dets, clock + dt, TableSizerProcess(f, gs))
    /\ UNCHANGED <<running, stRunning, pc, idx, heroDispatch, errors, cameraOk,
                   camStopped, stopPc, invoked, raised, stopAt>>
    /\ UNCHANGED <<seen, published, cam>>

\* the environment's budget: changes of the detector's output from one tick
\* to the next, pauses longer than a second and ticks without a frame
MaxSeatTicks == 15
MaxEnvEvents == 3

Spend(f, dets, dt) ==
    [changes |-> env.changes + (IF dets # detections THEN 1 ELSE 0),
     pauses |-> env.pauses + (IF dt > 1 THEN 1 ELSE 0),
     nulls |-> env.nulls + (IF f = NoFrame THEN 1 ELSE 0),
     faults |-> env.faults]

Spent(e) == e.changes + e.pauses + e.nulls

\* face-down opponent cards at two seats
OppA == Det(210, 200, CardBack, 60)
OppB == Det(790, 200, CardBack, 60)

SeatFrames == {NoFrame, TableFrame}
SeatDetections == {<<>>, <<OppB, OppA>>}
SeatDelays == {1, 299, 301}

SeatTick ==
    /\ ticks < MaxSeatTicks
    /\ \E f \in SeatFrames, dets \in SeatDetections, dt \in SeatDelays :
          /\ f = NoFrame => dets = detections
          /\ Spent(Spend(f, dets, dt)) <= MaxEnvEvents
          /\ env' = Spend(f, dets, dt)
          /\ DetectorTick(f, dets, dt)

SpecSeats == Constructed(TRUE) /\ [][SeatTick]_vars

-----------------------------------------------------------------------------
(* Properties of the seat registry, checked under SpecSeats *)

SeatIds(ss) == {ss[i].id : i \in DOMAIN ss}

\* C4: a seat turns from CANDIDATE to CONFIRMED on the tick that takes its
\* match count to SEAT_CREATION_FRAMES and on no other, a new seat starts as
\* CANDIDATE, and a CONFIRMED seat that is still in the registry after a tick
\* is still CONFIRMED, whether the tick matched it or not.
C4_ConfirmedOnceAtThreshold ==
    [][\A j \in DOMAIN seats' :
          LET t == seats'[j]
              was == {i \in DOMAIN seats : seats[i].id = t.id}
          IN  /\ (was = {}) => ~t.confirmed
              /\ \A i \in was :
                    /\ seats[i].confirmed => t.confirmed
                    /\ (~seats[i].confirmed /\ t.confirmed)
                         <=> (/\ seats[i].count < SEAT_CREATION_FRAMES
                              /\ t.count >= SEAT_CREATION_FRAMES)]_vars

\* C4 witness: a seat confirmed earlier that has since been matched again and
\* then left unmatched for two seconds, still CONFIRMED.
C4_Witness ==
    \E i \in DOMAIN seats :
        /\ seats[i].confirmed
        /\ seats[i].count > SEAT_CREATION_FRAMES
        /\ clock - seats[i].last >= SEAT_CANDIDATE_TIMEOUT

\* C5: whenever the registry is evaluated, a CONFIRMED seat whose time since
\* its last match has exceeded SEAT_CONFIRMED_TIMEOUT is absent afterwards.
C5_ConfirmedSeatExpires ==
    [][obs'.evaluated =>
          \A i \in DOMAIN seats :
              (/\ seats[i].confirmed
               /\ clock' - seats[i].last > SEAT_CONFIRMED_TIMEOUT)
              => seats[i].id \notin SeatIds(seats')]_vars

\* C6: whenever the registry is evaluated, a CANDIDATE seat whose time since
\* its last match has exceeded SEAT_CANDIDATE_TIMEOUT is absent afterwards,
\* and the points given to the classifier are those of CONFIRMED seats only.
C6_CandidateSeatExpires ==
    [][obs'.evaluated =>
          /\ \A i \in DOMAIN seats :
                (/\ ~seats[i].confirmed
                 /\ clock' - seats[i].last > SEAT_CANDIDATE_TIMEOUT)
                => seats[i].id \notin SeatIds(seats')
          /\ Len(obs'.puntos) = ConfirmedCount(seats')
          /\ \A k \in DOMAIN obs'.puntos :
                \E j \in DOMAIN seats' :
                    /\ seats'[j].confirmed
                    /\ obs'.puntos[k]
                         = Normalizado(seats'[j], frame'[1], frame'[2])]_vars

\* C7: a CONFIRMED seat whose time since its last match is below
\* SEAT_CONFIRMED_TIMEOUT when a tick runs is in the registry after the tick,
\* still CONFIRMED; when the tick evaluated the registry the seat is counted
\* in the confirmed-seat count and its position is among the classifier's
\* points.
C7_ConfirmedSeatPersists ==
    [][\A i \in DOMAIN seats :
          (/\ seats[i].confirmed
           /\ clock' - seats[i].last < SEAT_CONFIRMED_TIMEOUT)
          => \E j \in DOMAIN seats' :
                /\ seats'[j].id = seats[i].id
                /\ seats'[j].confirmed
                /\ obs'.evaluated =>
                      /\ dbg'.confirmed_seats = ConfirmedCount(seats')
                      /\ Normalizado(seats'[j], frame'[1], frame'[2])
                           \in Range(obs'.puntos)]_vars

\* C7 witness: after an evaluation with no detections that matched nothing,
\* a CONFIRMED seat last matched almost SEAT_CONFIRMED_TIMEOUT ago is still
\* counted and still given to the classifier.
C7_Witness ==
    /\ obs.evaluated
    /\ detections = <<>>
    /\ obs.matched = {}
    /\ obs.puntos # <<>>
    /\ dbg.confirmed_seats >= 1
    /\ \E i \in DOMAIN seats :
          /\ seats[i].confirmed
          /\ clock - seats[i].last >= SEAT_CONFIRMED_TIMEOUT - 1

-----------------------------------------------------------------------------
(* The stabiliser over a few ticks: every tick feeds one of a set of         *)
(* detection lists on a 1000 x 800 frame, one second after the previous one. *)

\* Scenario A: (0.50, 0.68) "Ah" and (0.50, 0.70) "Kd"
ScenarioA == <<Det(500, 544, "Ah", 90), Det(500, 560, "Kd", 90)>>

\* two hero cards 80 px apart, the right one detected first
HeroPair == <<Det(540, 560, "Kd", 90), Det(460, 560, "Ah", 90)>>

\* four clusters in the hero region and seven in the board band, each with a
\* face-down one at the far left
Crowded ==
    <<Det(300, 600, "Ah", 90), Det(400, 600, "Kd", 90), Det(500, 600, "Qs", 90),
      Det(200, 600, CardBack, 60),
      Det(250, 360, "7c", 90), Det(350, 360, "2h", 90), Det(450, 360, "9d", 90),
      Det(550, 360, "Ts", 90), Det(650, 360, "3c", 90), Det(750, 360, "Qs", 90),
      Det(150, 360, CardBack, 60)>>

\* Scenario C: one face-down opponent card
OppLone == <<Det(200, 160, CardBack, 60)>>

\* two opponent cards 50 px apart and a third one far from both
OppsThree ==
    <<Det(800, 160, CardBack, 60), Det(250, 160, "Qs", 90),
      Det(200, 160, CardBack, 60)>>

\* detections at and under the confidence floors, a label that is no card and
\* a box that has three numbers
Weak ==
    <<Det(460, 560, "Ah", 39), Det(540, 560, "Kd", 40),
      Det(200, 160, CardBack, 24), Det(800, 160, CardBack, 25),
      Det(500, 360, "dealer_button", 90),
      [box |-> <<480, 330, 520>>, label |-> "7c", conf |-> 90]>>

\* and two hero cards 40 px apart, then the right one seen 15 px to the left,
\* and two opponents 50 px apart across and 400 px apart down the frame
CardDetections ==
    {<<>>, ScenarioA, HeroPair, Crowded, OppLone, OppsThree, Weak,
     <<Det(460, 560, "Ah", 90), Det(500, 560, "Kd", 90)>>,
     <<Det(485, 560, "Kd", 90)>>,
     <<Det(200, 100, CardBack, 60), Det(250, 500, CardBack, 60)>>}

MaxCardTicks == 3

CardsTick ==
    /\ ticks < MaxCardTicks
    /\ \E dets \in CardDetections :
          /\ env' = env
          /\ DetectorTick(TableFrame, dets, 1)

SpecCards == Constructed(TRUE) /\ [][CardsTick]_vars

-----------------------------------------------------------------------------
(* Properties of the stabiliser, checked under SpecCards *)

\* C8: the published hero cards are at most HeroMaxCards, the published board
\* cards at most BoardMaxCards, and neither list holds the face-down sentinel.
C8_HeroBoardBounded ==
    /\ Len(gs.my_cards) <= HeroMaxCards
    /\ Len(gs.board) <= BoardMaxCards
    /\ CardBack \notin Range(gs.my_cards)
    /\ CardBack \notin Range(gs.board)

\* C8 witness: the buffer resolves more than HeroMaxCards face-up hero
\* clusters and more than BoardMaxCards face-up board clusters, with a
\* face-down cluster in each region, and two and five cards are published.
C8_Witness ==
    LET hero == ConsolidarBuffer(history, "hero")
        board == ConsolidarBuffer(history, "board")
    IN  /\ Len(SelectSeq(hero, NotBack)) > HeroMaxCards
        /\ Len(SelectSeq(board, NotBack)) > BoardMaxCards
        /\ CardBack \in Range(Labels(hero))
        /\ CardBack \in Range(Labels(board))
        /\ Len(gs.my_cards) = HeroMaxCards
        /\ Len(gs.board) = BoardMaxCards

\* C9: every published opponent group has two entries, the groups partition
\* the resolved opponent observations, a group of one observation is that
\* label twice, and a single face-down observation gives one group of two
\* face-down entries.
C9_OpponentGroupsArePairs ==
    frame # NoFrame =>
       LET opp == SortByX(ConsolidarBuffer(history, "opponent"))
           grupos == GruposIdx(opp, frame[1])
       IN  /\ Len(gs.opponents_cards) = Len(grupos)
           /\ \A k \in DOMAIN gs.opponents_cards :
                 Len(gs.opponents_cards[k]) = 2
           /\ \A i \in DOMAIN opp :
                 Cardinality({k \in DOMAIN grupos : i \in Range(grupos[k])}) = 1
           /\ \A k \in DOMAIN grupos :
                 Len(grupos[k]) = 1 =>
                    gs.opponents_cards[k]
                      = <<opp[grupos[k][1]].label, opp[grupos[k][1]].label>>
           /\ (Len(opp) = 1 /\ opp[1].label = CardBack) =>
                 gs.opponents_cards = <<(<<CardBack, CardBack>>)>>

\* C9 witness: three resolved opponent observations published as a pair and
\* as a lone face-down card with its phantom partner.
C9_Witness ==
    /\ frame # NoFrame
    /\ LET opp == SortByX(ConsolidarBuffer(history, "opponent"))
           grupos == GruposIdx(opp, frame[1])
       IN  /\ Len(opp) = 3
           /\ \E k \in DOMAIN grupos : Len(grupos[k]) = 2
           /\ \E k \in DOMAIN grupos :
                 /\ Len(grupos[k]) = 1
                 /\ opp[grupos[k][1]].label = CardBack
                 /\ gs.opponents_cards[k] = <<CardBack, CardBack>>

\* how many of the buffer's hero observations are the item it
TimesSeen(cand, it) == Cardinality({k \in DOMAIN cand : cand[k] = it})

\* the buffer's hero observations are two face-up items with different
\* labels, GridSize or more apart on some axis, each seen in at least
\* CONFIRMATION_THRESHOLD ticks, and nothing else
SeparatedHeroPair(cand) ==
    /\ Len(cand) >= 2
    /\ Range(cand) = {cand[1], cand[2]}
    /\ cand[1].label # cand[2].label
    /\ NotBack(cand[1]) /\ NotBack(cand[2])
    /\ \/ Abs(cand[1].x - cand[2].x) >= GridSize
       \/ Abs(cand[1].y - cand[2].y) >= GridSize
    /\ TimesSeen(cand, cand[1]) >= CONFIRMATION_THRESHOLD
    /\ TimesSeen(cand, cand[2]) >= CONFIRMATION_THRESHOLD

\* C10 (amended): two hero-region detections with different face-up labels
\* whose centres are GridSize (30 px) or more apart on some axis, seen in at
\* least CONFIRMATION_THRESHOLD buffered ticks and alone in the hero region of
\* the buffer, are both published, in ascending x order (in detection order
\* when x is equal).
C10_SeparatedHeroPairReported ==
    LET cand == Candidates(history, "hero")
    IN  (frame # NoFrame /\ SeparatedHeroPair(cand)) =>
           gs.my_cards = IF cand[1].x <= cand[2].x
                         THEN <<cand[1].label, cand[2].label>>
                         ELSE <<cand[2].label, cand[1].label>>

\* C10 witness: "Kd" at x = 540 and "Ah" at x = 460, detected in that order
\* in two ticks, are published as "Ah", "Kd".
C10_Witness ==
    /\ frame # NoFrame
    /\ SeparatedHeroPair(Candidates(history, "hero"))
    /\ Candidates(history, "hero")[1].label = "Kd"
    /\ gs.my_cards = <<"Ah", "Kd">>

\* C10 as stated: Scenario A's detections, repeated in every buffered tick
\* for at least CONFIRMATION_THRESHOLD ticks, give the hero cards "Ah", "Kd".
C10_ScenarioAYieldsAhKd ==
    (/\ Len(history) >= CONFIRMATION_THRESHOLD
     /\ \A k \in DOMAIN history :
           history[k] = FrameItems(ScenarioA, TableFrame[1], TableFrame[2],
                                   layoutCfg))
    => gs.my_cards = <<"Ah", "Kd">>

-----------------------------------------------------------------------------
(* HTPOrchestrator.main_loop and stop() *)

\* PluginLoader.load_order
LoadOrder ==
    <<"self_check_plugin", "window_detector_plugin", "input_handler",
      "vision_guard_plugin", "detectar_mesa", "card_detector_plugin",
      "advanced_ocr_plugin", "main_player_decisions", "HTPGUI",
      "blinds_detector", "errores">>

\* the stages main_loop skips while hero_active is false
HeavyStages == {"advanced_ocr_plugin", "main_player_decisions"}

\* hasattr(plugin, "process"): HTPGUIPlugin defines no process
HasProcess(name) == name # "HTPGUI"

\* the dispatch without the idle-mode skip (a faulty variant)
DispatchedAlways(name, hero) == HasProcess(name)

\* whether main_loop calls the stage's process() in a tick that sampled
\* hero_active = hero (every plugin of the load order is loaded)
Dispatched(name, hero) ==
    HasProcess(name) /\ ~(~hero /\ name \in HeavyStages)

\* the stages a whole tick calls, in order
ExpectedStages(hero) == SelectSeq(LoadOrder, LAMBDA n : Dispatched(n, hero))

\* msg = f"Error en plugin '{name}': {e}"
LoopError(name) == [src |-> "main_loop", plugin |-> name]

\* VisionGuard's black-screen message
BlackScreenError == [src |-> "black_screen", plugin |-> "vision_guard_plugin"]

\* the capture card's frame and the monitor it shows
CAPTURE_W == 1920
CAPTURE_H == 1080
MONITOR_W == 2560
MONITOR_H == 1440
MinCrop == 10

CaptureFrame == <<CAPTURE_W, CAPTURE_H>>
NoWindow == <<>>

Min(a, b) == IF a <= b THEN a ELSE b

\* the crop with the size clamped to the frame but not to what is left of it
\* right of and below the origin (a faulty variant)
CropRectLoose(raw, c) ==
    LET sx == Max(0, Min((c[1] * CAPTURE_W) \div MONITOR_W, raw[1] - 1))
        sy == Max(0, Min((c[2] * CAPTURE_H) \div MONITOR_H, raw[2] - 1))
        sw == Max(1, Min((c[3] * CAPTURE_W) \div MONITOR_W, raw[1]))
        sh == Max(1, Min((c[4] * CAPTURE_H) \div MONITOR_H, raw[2]))
    IN  <<sx, sy, sw, sh>>

\* (sx, sy, sw, sh): the window scaled to the capture and clamped to it
CropRect(raw, c) ==
    LET sx == Max(0, Min((c[1] * CAPTURE_W) \div MONITOR_W, raw[1] - 1))
        sy == Max(0, Min((c[2] * CAPTURE_H) \div MONITOR_H, raw[2] - 1))
        sw == Max(1, Min((c[3] * CAPTURE_W) \div MONITOR_W, raw[1] - sx))
        sh == Max(1, Min((c[4] * CAPTURE_H) \div MONITOR_H, raw[2] - sy))
    IN  <<sx, sy, sw, sh>>

\* state["frame"] after step 1 of the tick, for camera.read() = raw and
\* tracker.get_crop_coords() = c
CapturedFrame(raw, c, old) ==
    IF raw = NoFrame THEN old
    ELSE IF c = NoWindow THEN raw
    ELSE LET r == CropRect(raw, c)
         IN  IF r[3] > MinCrop /\ r[4] > MinCrop THEN <<r[3], r[4]>> ELSE old

\* what the camera and the tracker can return
RawFrames == {NoFrame, CaptureFrame}
WindowCoords == {NoWindow, <<0, 0, 1334, 1067>>, <<2550, 1430, 12, 12>>}

\* the environment's budget for the loop
MaxTicks == 3
MaxFaults == 1

\* while self.running and ...: the first operand
WhileSelf ==
    /\ pc = "while"
    /\ running => ticks < MaxTicks
    /\ pc' = IF running THEN "while2" ELSE "exit"
    /\ obs' = NoObs
    /\ UNCHANGED <<running, stRunning, idx, heroDispatch, errors, cameraOk,
                   camStopped, stopPc, ticks, frame, detections, heroActive,
                   gs, dbg, history, seats, nextId, lastHeroSeen,
                   detectedFormat, layoutCfg, clock, invoked, raised, stopAt,
                   env>>
    /\ UNCHANGED <<seen, published, cam>>

\* ... and self.state.get("running", True): the second operand
WhileState ==
    /\ pc = "while2"
    /\ pc' = IF stRunning THEN "capture" ELSE "exit"
    /\ obs' = NoObs
    /\ UNCHANGED <<running, stRunning, idx, heroDispatch, errors, cameraOk,
                   camStopped, stopPc, ticks, frame, detections, heroActive,
                   gs, dbg, history, seats, nextId, lastHeroSeen,
                   detectedFormat, layoutCfg, clock, invoked, raised, stopAt,
                   env>>
    /\ UNCHANGED <<seen, published, cam>>

\* step 1 of the tick and the sampling of hero_active
Capture ==
    /\ pc = "capture"
    /\ IF cameraOk
       THEN \E raw \in RawFrames, c \in WindowCoords :
               frame' = CapturedFrame(raw, c, frame)
       ELSE frame' = frame
    /\ heroDispatch' = heroActive
    /\ idx' = 1
    /\ pc' = "plugins"
    /\ invoked' = <<>>
    /\ raised' = <<>>
    /\ obs' = NoObs
    /\ UNCHANGED <<running, stRunning, errors, cameraOk, camStopped, stopPc,
                   ticks, detections, heroActive, gs, dbg, history, seats,
                   nextId, lastHeroSeen, detectedFormat, layoutCfg, clock,
                   stopAt, env>>
    /\ UNCHANGED <<seen, published, cam>>

\* the for loop over load_order is exhausted
ForLoopDoneOrStopped == idx > Len(LoadOrder) \/ ~running

ForLoopDone == idx > Len(LoadOrder)

\* the except clause written around the whole for loop (a faulty variant)
OnStageExceptionBreaks(name) ==
    /\ errors' = LastN(Append(errors, LoopError(name)), ErrLogKeep)
    /\ idx' = Len(LoadOrder) + 1

\* except Exception as e: the message is logged and the for loop goes on
OnStageException(name) ==
    /\ errors' = LastN(Append(errors, LoopError(name)), ErrLogKeep)
    /\ idx' = idx + 1

\* errs.append(msg) unless msg is the last entry; state["errors"] = errs[-200:]
BlackScreenLogged(errs) ==
    IF errs # <<>> /\ errs[Len(errs)] = BlackScreenError THEN errs
    ELSE LastN(Append(errs, BlackScreenError), PluginErrLogKeep)

\* what a stage that returns leaves in the shared state
StageReturns(name) ==
    /\ idx' = idx + 1
    /\ \/ /\ name = "input_handler"
          /\ \E grabbed \in {frame, NoFrame, TableFrame} : frame' = grabbed
          /\ obs' = NoObs
          /\ UNCHANGED <<errors, env, gs, heroActive, dbg, history, seats,
                         nextId, lastHeroSeen, detectedFormat, layoutCfg>>
       \/ /\ name = "vision_guard_plugin"
          /\ \E black \in BOOLEAN :
                IF black /\ frame # NoFrame /\ env.faults < MaxFaults
                THEN /\ frame' = NoFrame
                     /\ errors' = BlackScreenLogged(errors)
                     /\ env' = [env EXCEPT !.faults = @ + 1]
                ELSE UNCHANGED <<frame, errors, env>>
          /\ obs' = NoObs
          /\ UNCHANGED <<gs, heroActive, dbg, history, seats, nextId,
                         lastHeroSeen, detectedFormat, layoutCfg>>
       \/ /\ name = "detectar_mesa"
          /\ gs' = TableSizerProcess(frame, gs)
          /\ obs' = NoObs
          /\ UNCHANGED <<frame, errors, env, heroActive, dbg, history, seats,
                         nextId, lastHeroSeen, detectedFormat, layoutCfg>>
       \/ /\ name = "card_detector_plugin"
          /\ CardDetectorProcess(frame, detections, clock, gs)
          /\ UNCHANGED <<frame, errors, env>>
       \/ /\ name \notin {"input_handler", "vision_guard_plugin",
                          "detectar_mesa", "card_detector_plugin"}
          /\ obs' = NoObs
          /\ UNCHANGED <<frame, errors, env, gs, heroActive, dbg, history,
                         seats, nextId, lastHeroSeen, detectedFormat,
                         layoutCfg>>

\* one pass of the for loop over load_order
RunStage ==
    /\ pc = "plugins"
    /\ ~ForLoopDone
    /\ LET name == LoadOrder[idx]
       IN  IF ~Dispatched(name, heroDispatch)
           THEN /\ idx' = idx + 1
                /\ obs' = NoObs
                /\ UNCHANGED <<errors, env, frame, gs, heroActive, dbg,
                               history, seats, nextId, lastHeroSeen,
                               detectedFormat, layoutCfg, invoked, raised>>
           ELSE /\ invoked' = Append(invoked, name)
                /\ \E raises \in BOOLEAN :
                      IF raises
                      THEN /\ env.faults < MaxFaults
                           /\ env' = [env EXCEPT !.faults = @ + 1]
                           /\ raised' = Append(raised, name)
                           /\ OnStageException(name)
                           /\ obs' = NoObs
                           /\ UNCHANGED <<frame, gs, heroActive, dbg, history,
                                          seats, nextId, lastHeroSeen,
                                          detectedFormat, layoutCfg>>
                      ELSE /\ raised' = raised
                           /\ StageReturns(name)
    /\ UNCHANGED <<running, stRunning, pc, heroDispatch, cameraOk, camStopped,
                   stopPc, ticks, detections, clock, stopAt>>
    /\ UNCHANGED <<seen, published, cam>>

\* the FPS control and the sleep that end the tick
FpsControl ==
    /\ pc = "plugins"
    /\ ForLoopDone
    /\ clock' = clock + 1
    /\ ticks' = ticks + 1
    /\ pc' = "while"
    /\ obs' = NoObs
    /\ UNCHANGED <<running, stRunning, idx, heroDispatch, errors, cameraOk,
                   camStopped, stopPc, frame, detections, heroActive, gs, dbg,
                   history, seats, nextId, lastHeroSeen, detectedFormat,
                   layoutCfg, invoked, raised, stopAt, env>>
    /\ UNCHANGED <<seen, published, cam>>

\* if self.camera: self.camera.stop(), with the flag left as it is (a faulty
\* variant)
CameraLeftRunning == camStopped' = camStopped

\* if self.camera: self.camera.stop()
CameraStopped == camStopped' = (camStopped \/ cameraOk)

\* after the while loop
ExitLoop ==
    /\ pc = "exit"
    /\ CameraStopped
    /\ pc' = "done"
    /\ obs' = NoObs
    /\ UNCHANGED <<running, stRunning, idx, heroDispatch, errors, cameraOk,
                   stopPc, ticks, frame, detections, heroActive, gs, dbg,
                   history, seats, nextId, lastHeroSeen, detectedFormat,
                   layoutCfg, clock, invoked, raised, stopAt, env>>
    /\ UNCHANGED <<seen, published, cam>>

\* the steps of the thread that runs main_loop
MainLoop ==
    \/ WhileSelf
    \/ WhileState
    \/ Capture
    \/ RunStage
    \/ FpsControl
    \/ ExitLoop

\* a tick has started and stages of it are still to be dispatched
InFlight == pc = "capture" \/ (pc = "plugins" /\ ~ForLoopDone)

\* stop(), called from another thread: self.running = False
StopSelf ==
    /\ stopPc = "idle"
    /\ running' = FALSE
    /\ stopPc' = "set_state"
    /\ stopAt' = IF InFlight THEN "in_flight" ELSE "boundary"
    /\ UNCHANGED <<stRunning, pc, idx, heroDispatch, errors, cameraOk,
                   camStopped, ticks, frame, detections, heroActive, gs, dbg,
                   history, seats, nextId, lastHeroSeen, detectedFormat,
                   layoutCfg, clock, invoked, raised, obs, env>>
    /\ UNCHANGED <<seen, published, cam>>

\* stop(): self.state["running"] = False
StopState ==
    /\ stopPc = "set_state"
    /\ stRunning' = FALSE
    /\ stopPc' = "done"
    /\ UNCHANGED <<running, pc, idx, heroDispatch, errors, cameraOk,
                   camStopped, ticks, frame, detections, heroActive, gs, dbg,
                   history, seats, nextId, lastHeroSeen, detectedFormat,
                   layoutCfg, clock, invoked, raised, stopAt, obs, env>>
    /\ UNCHANGED <<seen, published, cam>>

Next == MainLoop \/ StopSelf \/ StopState

Spec == Init /\ [][Next]_vars

\* the thread that runs main_loop keeps being scheduled
FairSpec == Spec /\ WF_vars(MainLoop)

-----------------------------------------------------------------------------
(* Properties of the orchestrator, checked under Spec and FairSpec *)

\* the main loop leaves the for loop over the stages on this step
TickEnds == pc = "plugins" /\ pc' # "plugins"

\* C1: when a stage's process() raises, the message is appended to the error
\* log (kept to its last ErrLogKeep entries) and the for loop goes on with the
\* next stage; a tick in which a stage raised ends only after every stage it
\* dispatches was invoked; the loop goes on to the next tick whenever both
\* running flags are set, and leaves the while loop only from its condition,
\* with a running flag cleared.
C1_StageExceptionContained ==
    /\ [][raised' # raised /\ raised' # <<>> =>
            /\ errors' = LastN(Append(errors, LoopError(LoadOrder[idx])),
                               ErrLogKeep)
            /\ pc' = "plugins"
            /\ idx' = idx + 1]_vars
    /\ [][TickEnds /\ raised # <<>> =>
            /\ pc' = "while"
            /\ invoked = ExpectedStages(heroDispatch)]_vars
    /\ [][pc = "while" /\ pc' # pc /\ running => pc' = "while2"]_vars
    /\ [][pc = "while2" /\ pc' # pc /\ stRunning => pc' = "capture"]_vars
    /\ [][pc' \in {"exit", "done"} /\ pc \notin {"exit", "done"} =>
            /\ pc \in {"while", "while2"}
            /\ ~running \/ ~stRunning]_vars

\* C1 witness: input_handler raised in an earlier tick, and a later tick has
\* invoked every stage it dispatches.
C1_Witness ==
    /\ errors = <<LoopError("input_handler")>>
    /\ raised = <<>>
    /\ pc = "plugins"
    /\ ForLoopDone
    /\ invoked = ExpectedStages(heroDispatch)
    /\ ticks >= 1

\* C2: a tick that is in flight while a running flag is cleared ends only
\* after every stage it dispatches was invoked, and the loop leaves only from
\* the while condition, never from between the stages.
C2_StopIsCooperative ==
    /\ [][TickEnds /\ (~running \/ ~stRunning) =>
            /\ pc' = "while"
            /\ invoked = ExpectedStages(heroDispatch)]_vars
    /\ [][pc = "plugins" /\ pc' = "plugins" /\ ~ForLoopDone /\ idx' # idx =>
            idx' = idx + 1]_vars
    /\ [][pc' = "exit" /\ pc # "exit" => pc \in {"while", "while2"}]_vars

\* C2 witness: stop() was called while a tick was in flight with stages still
\* to be dispatched, the tick has invoked all of them, and the loop has left.
C2_Witness ==
    /\ stopAt = "in_flight"
    /\ pc = "exit"
    /\ ticks >= 1
    /\ invoked = ExpectedStages(heroDispatch)

\* C3: a while condition whose evaluation begins after stop() has cleared
\* self.running starts no tick, and neither does one that is finished after
\* stop() has returned; the loop leaves with the camera stopped (when there is
\* a camera), and once stop() has returned it eventually does.
C3_StopEndsLoop ==
    /\ [][stopPc # "idle" /\ pc = "while" /\ pc' # pc => pc' = "exit"]_vars
    /\ [][stopPc = "done" /\ pc = "while2" /\ pc' # pc => pc' = "exit"]_vars
    /\ [][pc' = "done" /\ pc # "done" => (cameraOk => camStopped')]_vars
    /\ (stopPc = "done") ~> (pc = "done" /\ (cameraOk => camStopped))

\* C3 witness: stop() was called during a tick, the tick finished, the loop
\* ended and the camera was stopped.
C3_Witness ==
    /\ stopPc = "done"
    /\ stopAt = "in_flight"
    /\ pc = "done"
    /\ cameraOk
    /\ camStopped
    /\ ticks >= 1

-----------------------------------------------------------------------------
(* The classifier on its own: every step hands _inferir_formato_geometrico   *)
(* one list of confirmed-seat positions and keeps its result.                *)

WithoutHero(pts) == SelectSeq(pts, LAMBDA p : p # HeroPoint)

Shifted(pts, d) == [k \in DOMAIN pts |-> <<pts[k][1] + d[1], pts[k][2] + d[2]>>]

\* offsets inside and outside the match radius
Shifts == {<<400, 0>>, <<0, -600>>, <<1600, 1600>>}

\* a seat far from every canonical seat, the corners, a point in the
\* hero's tolerance box, and a point as far from the lower-left seat of
\* "8-Max" as from that of "9-Max" and out of reach of the other layouts
StrayPoints ==
    {<<5000, 500>>, <<9900, 9900>>, <<0, 0>>, <<5400, 7300>>, <<3100, 8000>>}

\* the lists given to the classifier; the last one is a registry crowded by
\* a long stream: one seat at the top right and 25 seats drawn to within
\* 0.004 of each other near the upper-left seat of "5-Max"
ClassifierInputs ==
    {<<>>}
    \cup {GG_LAYOUTS(n) : n \in Range(LayoutNames)}
    \cup {WithoutHero(GG_LAYOUTS(n)) : n \in Range(LayoutNames)}
    \cup UNION {{<<GG_LAYOUTS(n)[k]>> : k \in DOMAIN GG_LAYOUTS(n)} :
                  n \in Range(LayoutNames)}
    \cup {Shifted(WithoutHero(GG_LAYOUTS(n)), d) :
            n \in Range(LayoutNames), d \in Shifts}
    \cup {<<p>> : p \in StrayPoints}
    \cup {Append(WithoutHero(GG_LAYOUTS(n)), p) :
            n \in Range(LayoutNames), p \in StrayPoints}
    \cup {<<(<<9000, 500>>)>> \o [k \in 1..25 |-> <<1760 + 40 * k, 2800>>]}

MaxClassifierCalls == 2

ClassifierCall ==
    /\ ticks < MaxClassifierCalls
    /\ \E pts \in ClassifierInputs :
          /\ obs' = [op |-> "classify", evaluated |-> TRUE, puntos |-> pts,
                     matched |-> {}]
          /\ detectedFormat' = InferirFormatoGeometrico(pts)
    /\ ticks' = ticks + 1
    /\ UNCHANGED <<running, stRunning, pc, idx, heroDispatch, errors, cameraOk,
                   camStopped, stopPc, frame, detections, heroActive, gs, dbg,
                   history, seats, nextId, lastHeroSeen, layoutCfg, clock,
                   invoked, raised, stopAt, env>>
    /\ UNCHANGED <<seen, published, cam>>

SpecClassifier == Constructed(TRUE) /\ [][ClassifierCall]_vars

-----------------------------------------------------------------------------
(* Properties of the classifier, checked under SpecClassifier *)

\* menor_score for the points the classifier was last given
BestScore == MejorFit(PuntosTest(obs.puntos), 1, <<"Custom", Infinity>>)[2]

\* matches of one layout on the points the classifier evaluates
MatchesOf(n) == LayoutMatches(PuntosTest(obs.puntos), GG_LAYOUTS(n)).matches

\* C11: given exactly the coordinates of a canonical layout, with the hero's
\* seat or without it (the classifier adds it), the classifier returns that
\* layout's name and the winning score is under the rejection ceiling.
\* (Fails for "9-Max": every one of its nine points lies within the match
\* radius of a "6-Max" seat, and nine matches on seven seats make the
\* empty-seat penalty negative, so "6-Max" scores below zero.)
C11_LayoutRoundTrip ==
    \A n \in Range(LayoutNames) :
        (/\ obs.op = "classify"
         /\ obs.puntos \in {GG_LAYOUTS(n), WithoutHero(GG_LAYOUTS(n))})
        => /\ detectedFormat = n
           /\ BestScore < RejectionCeiling

\* C12 (amended): as long as no layout counts 20 more matched points than it
\* has seats, the result is the sentinel exactly when no point was given or
\* every canonical layout leaves at least one evaluated point outside the
\* match radius; the result is the sentinel or a layout name.  Every layout
\* has a matched point whenever a point was given, because the hero's seat is
\* evaluated and belongs to every layout.
C12_SentinelIffUnexplainedPoint ==
    obs.op = "classify" =>
       /\ (\A n \in Range(LayoutNames) :
               MatchesOf(n) - Len(GG_LAYOUTS(n)) < 20)
            => (detectedFormat = Detectando
                  <=> \/ obs.puntos = <<>>
                      \/ \A n \in Range(LayoutNames) :
                            MatchesOf(n) < Len(PuntosTest(obs.puntos)))
       /\ detectedFormat # Detectando => detectedFormat \in Range(LayoutNames)
       /\ obs.puntos # <<>> => \A n \in Range(LayoutNames) : MatchesOf(n) >= 1

\* C12 witness: one seat far from every canonical seat was given; every
\* layout matches the hero's seat and the result is the sentinel.
C12_Witness ==
    /\ obs.op = "classify"
    /\ obs.puntos = <<(<<5000, 500>>)>>
    /\ \A n \in Range(LayoutNames) : MatchesOf(n) = 1
    /\ detectedFormat = Detectando

\* C12 as stated: whenever some layout has a matched point among the
\* evaluated points, the result is a layout name.
C12_SentinelOnlyWithoutMatch ==
    (/\ obs.op = "classify"
     /\ obs.puntos # <<>>
     /\ \E n \in Range(LayoutNames) : MatchesOf(n) >= 1)
    => detectedFormat \in Range(LayoutNames)

-----------------------------------------------------------------------------
(* A stream of detections: every tick feeds one detection list on the same   *)
(* 1000 x 800 frame; the list changes at most a few times, so that a stream  *)
(* of identical ticks outlasts the buffer.                                   *)

\* the hero's pair and two face-down opponents
TableA == HeroPair \o <<OppB, OppA>>

\* the hero's pair, a flop, one opponent of TableA and one at the top
TableB ==
    <<Det(460, 560, "Ah", 90), Det(540, 560, "Kd", 90),
      Det(350, 360, "2h", 90), Det(450, 360, "9d", 90), Det(550, 360, "Ts", 90),
      OppA, Det(500, 120, CardBack, 60)>>

\* two opponent cards 125 px apart (two clusters within one seat's reach) and
\* a third opponent
TableC == <<OppA, Det(335, 200, CardBack, 60), OppB>>

StreamDetections == {<<>>, TableA, TableB, TableC}
StreamDelays == {1, 3}

MaxStreamTicks == 9
MaxStreamEvents == 3

StreamTick ==
    /\ ticks < MaxStreamTicks
    /\ \E dets \in StreamDetections, dt \in StreamDelays :
          /\ Spent(Spend(TableFrame, dets, dt)) <= MaxStreamEvents
          /\ env' = Spend(TableFrame, dets, dt)
          /\ DetectorTick(TableFrame, dets, dt)

SpecStream == Constructed(TRUE) /\ [][StreamTick]_vars

-----------------------------------------------------------------------------
(* Properties of the stream, checked under SpecStream *)

\* the buffer is full of ticks that all carried the current detections on
\* the current frame
StreamSettled ==
    /\ frame # NoFrame
    /\ Len(history) = BUFFER_SIZE
    /\ \A k \in DOMAIN history :
          history[k] = FrameItems(detections, frame[1], frame[2], layoutCfg)

\* C13: once identical detections on a constant frame have filled the
\* buffer, a further tick of the same stream leaves the hero cards, the
\* board cards and the opponent groups as they were and creates no seat; the
\* seats it removes do not come back, so the membership of the registry can
\* only shrink from then on and stops changing.
C13_ConstantStreamIsStable ==
    [][(StreamSettled /\ detections' = detections /\ frame' = frame) =>
          /\ gs'.my_cards = gs.my_cards
          /\ gs'.board = gs.board
          /\ gs'.opponents_cards = gs.opponents_cards
          /\ SeatIds(seats') \subseteq SeatIds(seats)
          /\ nextId' = nextId]_vars

\* C13 witness: the stream of TableB has gone on past the buffer length after
\* an earlier stream, with hero cards, a flop, opponent groups and seats.
C13_Witness ==
    /\ StreamSettled
    /\ detections = TableB
    /\ ticks > BUFFER_SIZE + 1
    /\ env.changes >= 2
    /\ gs.my_cards = <<"Ah", "Kd">>
    /\ Len(gs.board) = 3
    /\ Len(gs.opponents_cards) = 2
    /\ seats # <<>>

-----------------------------------------------------------------------------
(* The dashboard thread beside the control loop.  HTPGUIPlugin.setup starts  *)
(* a server thread whose handlers read state["game_state"], the dict that    *)
(* CardDetectorPlugin.process updates key by key.  A tick is therefore cut   *)
(* where the thread can run between two of those updates: after the three    *)
(* card lists are stored and before the remaining keys are.                  *)

\* process() up to gs["opponents_cards"] = ...: the buffer gets the tick's
\* items and the three card lists are stored in the shared dict
CardListsStored(f, dets, gsIn) ==
    LET hist == BufferAppend(history,
                             FrameItems(dets, f[1], f[2], layoutCfg))
    IN  /\ history' = hist
        /\ gs' = [gsIn EXCEPT
                    !.my_cards = Labels(HeroValid(hist)),
                    !.board = Labels(BoardValid(hist)),
                    !.opponents_cards =
                        AgruparRivales(ConsolidarBuffer(hist, "opponent"), f[1])]

\* game_state once the rest of process() has run on the stored card lists,
\* reg being the result of _gestionar_asientos
RestStored(gsMid, reg) ==
    LET pih == PlayersInHand(Len(gsMid.opponents_cards), Len(gsMid.my_cards),
                             Len(gsMid.board))
    IN  [gsMid EXCEPT
           !.street = Street(Len(gsMid.board), gsMid.street),
           !.players_in_hand = pih,
           !.active_players =
               FinalActive(gsMid.active_players, reg.result,
                           Len(gsMid.my_cards), pih),
           !.table_format =
               IF reg.format # Detectando THEN reg.format
               ELSE gsMid.table_format]

\* what _gestionar_asientos returns for the tick under way
RegistryNow ==
    GestionarAsientos(ConsolidarBuffer(history, "opponent"), frame[1],
                      frame[2], clock, seats, nextId, detectedFormat)

DashDetections == {<<>>, TableA, TableB}

MaxDashTicks == 4

\* a tick from its start to the point where the card lists are stored
TickStoresCards ==
    /\ pc = "while"
    /\ ticks < MaxDashTicks
    /\ \E dets \in DashDetections :
          /\ detections' = dets
          /\ CardListsStored(TableFrame, dets, TableSizerProcess(TableFrame, gs))
    /\ frame' = TableFrame
    /\ clock' = clock + 1
    /\ pc' = "cards_stored"
    /\ obs' = NoObs
    /\ UNCHANGED <<running, stRunning, idx, heroDispatch, errors, cameraOk,
                   camStopped, stopPc, ticks, heroActive, dbg, seats, nextId,
                   lastHeroSeen, detectedFormat, layoutCfg, invoked, raised,
                   stopAt, env, seen, published, cam>>

\* the rest of the tick: the sticky flag, the street, the counts, the
\* registry and the table format
TickStoresRest ==
    /\ pc = "cards_stored"
    /\ \E reg \in {RegistryNow} :
          /\ gs' = RestStored(gs, reg)
          /\ published' = RestStored(gs, reg)
          /\ seats' = reg.seats
          /\ nextId' = reg.nextId
          /\ detectedFormat' = reg.format
          /\ dbg' = [confirmed_seats |-> reg.result,
                     total_seats_tracked |-> Len(reg.seats),
                     table_fmt_geo |-> reg.format]
          /\ obs' = [op |-> "process", evaluated |-> reg.evaluated,
                     puntos |-> reg.puntos, matched |-> reg.matched]
    /\ IF Len(gs.my_cards) >= 2
       THEN lastHeroSeen' = clock /\ heroActive' = TRUE
       ELSE /\ lastHeroSeen' = lastHeroSeen
            /\ heroActive' = (heroActive
                               \/ clock - lastHeroSeen < HeroStickySeconds)
    /\ ticks' = ticks + 1
    /\ pc' = "while"
    /\ UNCHANGED <<running, stRunning, idx, heroDispatch, errors, cameraOk,
                   camStopped, stopPc, frame, detections, history, layoutCfg,
                   clock, invoked, raised, stopAt, env, seen, cam>>

\* a handler of the dashboard reads state["game_state"]
DashboardRead ==
    /\ seen' = [read |-> TRUE,
                game_state |-> gs,
                before |-> published,
                after |-> IF pc = "cards_stored"
                          THEN RestStored(gs, RegistryNow) ELSE gs]
    /\ UNCHANGED <<running, stRunning, pc, idx, heroDispatch, errors, cameraOk,
                   camStopped, stopPc, ticks, frame, detections, heroActive,
                   gs, dbg, history, seats, nextId, lastHeroSeen,
                   detectedFormat, layoutCfg, clock, invoked, raised, stopAt,
                   obs, env, published, cam>>

SpecDashboard ==
    Constructed(TRUE)
    /\ [][TickStoresCards \/ TickStoresRest \/ DashboardRead]_vars

-----------------------------------------------------------------------------
(* Properties of the dashboard's reads, checked under SpecDashboard *)

OutputFields ==
    {"my_cards", "board", "opponents_cards", "street", "players_in_hand",
     "active_players", "table_format"}

\* a snapshot that holds one field as the tick under way publishes it and
\* another field still as the tick before left it
Torn(s) ==
    /\ s.read
    /\ \E new, old \in OutputFields :
          /\ s.game_state[new] = s.after[new]
          /\ s.after[new] # s.before[new]
          /\ s.game_state[old] = s.before[old]
          /\ s.before[old] # s.after[old]

\* C14: the dashboard never reads a game_state in which some field already
\* has the value of the tick under way while another field still has the
\* value the previous tick published.
C14_ReaderNeverSeesTornOutput == ~Torn(seen)

-----------------------------------------------------------------------------
\* The diagnostic log state["errors"] and its writers.

\* input_handler's note that the Pillow fallback captured the frame
CaptureNote == [src |-> "capture_fallback", plugin |-> "input_handler"]

\* InputHandler._append_error: errs.append(msg); state["errors"] = errs[-200:]
_append_error(errs, msg) == LastN(Append(errs, msg), PluginErrLogKeep)

MaxLogLen == 52

\* a stage reports an error of its own and returns
StageReportsError ==
    /\ Len(errors) < MaxLogLen
    /\ errors' = _append_error(errors, CaptureNote)
    /\ UNCHANGED <<running, stRunning, pc, idx, heroDispatch, cameraOk,
                   camStopped, stopPc, ticks, frame, detections, heroActive,
                   gs, dbg, history, seats, nextId, lastHeroSeen,
                   detectedFormat, layoutCfg, clock, invoked, raised, stopAt,
                   obs, env, seen, published, cam>>

\* a stage raises and the loop's handler logs it
StageFails ==
    /\ env.faults < MaxFaults
    /\ errors' = LastN(Append(errors, LoopError("input_handler")), ErrLogKeep)
    /\ env' = [env EXCEPT !.faults = @ + 1]
    /\ UNCHANGED <<running, stRunning, pc, idx, heroDispatch, cameraOk,
                   camStopped, stopPc, ticks, frame, detections, heroActive,
                   gs, dbg, history, seats, nextId, lastHeroSeen,
                   detectedFormat, layoutCfg, clock, invoked, raised, stopAt,
                   obs, seen, published, cam>>

SpecErrorLog == Constructed(TRUE) /\ [][StageReportsError \/ StageFails]_vars

\* C15: the diagnostic log never holds more than 50 entries, whatever
\* sequence of stage-reported errors and stage failures produced it.
C15_LogHoldsAtMostFifty == Len(errors) <= ErrLogKeep

-----------------------------------------------------------------------------
\* Ticks whose frame is missing or has no area.

\* a frame whose shape is (0, 1000, 3)
FlatFrame == <<1000, 0>>

\* frame is None, or frame.shape[:2] holds a zero
Unusable(f) == f = NoFrame \/ f[1] <= 0 \/ f[2] <= 0

FrameKinds == {NoFrame, TableFrame, FlatFrame}
FrameDetections == {<<>>, TableA}
FrameDelays == {1, 3}
MaxFrameTicks == 4

FrameTick ==
    /\ ticks < MaxFrameTicks
    /\ \E f \in FrameKinds, dets \in FrameDetections, dt \in FrameDelays :
          /\ env' = Spend(f, dets, dt)
          /\ DetectorTick(f, dets, dt)

SpecFrames == Constructed(TRUE) /\ [][FrameTick]_vars

\* C16: a tick whose frame is missing or has zero area leaves the published
\* hero cards, board, opponent groups, seat counts and table format, the
\* detection buffer and the seat set exactly as the previous tick left them.
C16_UnusableFrameIsNoOp ==
    [][(ticks' # ticks /\ Unusable(frame'))
          => /\ gs' = gs
             /\ history' = history
             /\ seats' = seats
             /\ nextId' = nextId]_vars

\* C17: on a tick whose frame is missing or has zero area the registry
\* matches no seat and creates none, and every seat past its timeout is
\* removed on that tick.
C17_UnusableFrameStillAges ==
    [][(ticks' # ticks /\ Unusable(frame'))
          => /\ nextId' = nextId
             /\ \A j \in DOMAIN seats' :
                   /\ \E i \in DOMAIN seats : seats[i] = seats'[j]
                   /\ SeatKept(seats'[j], clock')]_vars

\* C19: after a tick in which the classifier found no layout under the
\* rejection ceiling the published table format is the unresolved sentinel.
C19_UnresolvedIsPublished ==
    (obs.op = "process" /\ obs.evaluated /\ detectedFormat = Detectando)
        => gs.table_format = Detectando

-----------------------------------------------------------------------------
\* Detection records that are not well formed.

\* what can be wrong with a record: the confidence is a text or is absent,
\* the label is absent, the box is absent, has three numbers or holds texts
RecordFaults ==
    {"conf_text", "conf_missing", "label_missing", "box_missing", "box_three",
     "box_text"}

\* a record that would be det but for the fault
Bad(det, fault) == [det |-> det, fault |-> fault]

\* the collection loop's body on one record: "raise", "skip" or "append".
\* float() of a text raises; an absent confidence reads as 0.0 and is under
\* every floor; the isinstance/len test skips an absent label, an absent box
\* and a box of three; (x1 + x2) / 2.0 on texts raises
LoopBody(rec) ==
    CASE rec.fault = "conf_text" -> "raise"
      [] rec.fault = "conf_missing" -> "skip"
      [] rec.det.conf < MinConf(rec.det.label) -> "skip"
      [] rec.fault \in {"label_missing", "box_missing", "box_three"} -> "skip"
      [] ~EsLabelCarta(rec.det.label) -> "skip"
      [] rec.fault = "box_text" -> "raise"
      [] OTHER -> "append"

\* the well-formed records of a tick, as detections
WellFormed(recs) ==
    LET good == SelectSeq(recs, LAMBDA r : r.fault = "none")
    IN  [i \in DOMAIN good |-> good[i].det]

\* a full table, alone or behind one record with a fault
RecordStreams ==
    LET table == [i \in DOMAIN TableA |-> Bad(TableA[i], "none")]
    IN  {<<>>, table}
          \cup {<<Bad(OppLone[1], f)>> \o table : f \in RecordFaults}

MaxRecordTicks == 3

\* one tick of main_loop on a 1000x800 frame: detectar_mesa, then the card
\* detector, each under the loop's exception handler
RecordsTick ==
    /\ ticks < MaxRecordTicks
    /\ \E recs \in RecordStreams :
          LET sizerRaises == \E i \in DOMAIN recs : recs[i].fault = "conf_text"
              cardRaises == \E i \in DOMAIN recs : LoopBody(recs[i]) = "raise"
              logged == IF sizerRaises
                        THEN LastN(Append(errors, LoopError("detectar_mesa")),
                                   ErrLogKeep)
                        ELSE errors
              gsMid == IF sizerRaises THEN gs ELSE TableSizerProcess(TableFrame, gs)
          IN  /\ clock' = clock + 1
              /\ frame' = TableFrame
              /\ detections' = recs
              /\ ticks' = ticks + 1
              /\ IF cardRaises
                 THEN /\ errors' = LastN(Append(logged,
                                                LoopError("card_detector_plugin")),
                                         ErrLogKeep)
                      /\ gs' = gsMid
                      /\ obs' = [NoObs EXCEPT !.op = "raised"]
                      /\ UNCHANGED <<heroActive, dbg, history, seats, nextId,
                                     lastHeroSeen, detectedFormat, layoutCfg>>
                 ELSE /\ errors' = logged
                      /\ CardDetectorProcess(TableFrame, WellFormed(recs),
                                             clock + 1, gsMid)
    /\ UNCHANGED <<running, stRunning, pc, idx, heroDispatch, cameraOk,
                   camStopped, stopPc, invoked, raised, stopAt, env, seen,
                   published, cam>>

SpecRecords == Constructed(TRUE) /\ [][RecordsTick]_vars

\* C18: on every tick the card detector completes without raising, whatever
\* malformed records the tick carries, and the tick's well-formed detections
\* are appended to the detection buffer.
C18_MalformedRecordsAreDropped ==
    [][ticks' # ticks
          => /\ obs'.op = "process"
             /\ history' = BufferAppend(history,
                               FrameItems(WellFormed(detections'), TableFrame[1],
                                          TableFrame[2], layoutCfg))]_vars

-----------------------------------------------------------------------------
\* The hero-active flag, checked under SpecStream.

\* C20: the hero-active flag, which selects the loop's active interval, is
\* true only while the hero has two published cards or had them less than
\* HeroStickySeconds ago; once the cards have been gone for longer, the flag
\* is false again.
C20_FlagFollowsHeroCards ==
    heroActive
        => \/ Len(gs.my_cards) >= HeroMaxCards
           \/ clock - lastHeroSeen < HeroStickySeconds

-----------------------------------------------------------------------------
\* The crop rectangle of the capture step.

MaxCropCalls == 1

\* lines 302-316 for one frame of the capture card and one rectangle of the
\* tracker, whose get_crop_coords returns x, y >= 0 and w, h >= 1
CropCall ==
    /\ ticks < MaxCropCalls
    /\ \E raw \in {<<1, 1>>, <<12, 12>>, <<640, 480>>, CaptureFrame},
          x \in {0, 1, 850, 2559, 5000}, y \in {0, 1, 640, 1439, 5000},
          w \in {1, 2, 16, 1334, 2560, 9000}, h \in {1, 2, 16, 1067, 1440, 9000} :
          obs' = [op |-> "crop", evaluated |-> FALSE, puntos |-> <<>>,
                  matched |-> {}, raw |-> raw, coords |-> <<x, y, w, h>>,
                  rect |-> CropRect(raw, <<x, y, w, h>>)]
    /\ ticks' = ticks + 1
    /\ UNCHANGED <<running, stRunning, pc, idx, heroDispatch, errors, cameraOk,
                   camStopped, stopPc, frame, detections, heroActive, gs, dbg,
                   history, seats, nextId, lastHeroSeen, detectedFormat,
                   layoutCfg, clock, invoked, raised, stopAt, env, seen,
                   published, cam>>

SpecCrop == Constructed(TRUE) /\ [][CropCall]_vars

\* C21: for every rectangle of the tracker and every frame of at least one
\* pixel, the scaled and clamped rectangle starts inside the frame, is at
\* least one pixel wide and high, and ends inside the frame.
C21_CropInsideFrame ==
    obs.op = "crop"
        => /\ 0 <= obs.rect[1] /\ obs.rect[1] <= obs.raw[1] - 1
           /\ 0 <= obs.rect[2] /\ obs.rect[2] <= obs.raw[2] - 1
           /\ obs.rect[3] >= 1
           /\ obs.rect[4] >= 1
           /\ obs.rect[1] + obs.rect[3] <= obs.raw[1]
           /\ obs.rect[2] + obs.rect[4] <= obs.raw[2]

\* C21 witness: a window lying beyond the frame's right and lower edges, cut
\* down to the frame's last pixel.
C21_Witness ==
    /\ obs.op = "crop"
    /\ obs.raw = CaptureFrame
    /\ obs.coords = <<5000, 5000, 1334, 1067>>
    /\ obs.rect = <<CAPTURE_W - 1, CAPTURE_H - 1, 1, 1>>

-----------------------------------------------------------------------------
\* Ticks whose frame changes size (the tracked window is resized).

MaxResizeTicks == 11

\* one tick on the 1000x800 frame or on a 500x400 one; no detection of the
\* stream lies inside the smaller frame's right half, so that frame comes
\* with none
ResizeTick ==
    /\ ticks < MaxResizeTicks
    /\ \E f \in {TableFrame, <<500, 400>>}, dets \in SeatDetections :
          /\ f # TableFrame => dets = <<>>
          /\ Spent(Spend(f, dets, 1)) <= MaxEnvEvents
          /\ env' = Spend(f, dets, 1)
          /\ DetectorTick(f, dets, 1)

SpecResize == Constructed(TRUE) /\ [][ResizeTick]_vars

\* C22: the confirmed-seat positions handed to the classifier have both
\* components between 0 and 1 (0 and 10000 in the model's unit), on every
\* tick, whatever the sizes of the frames before it.
C22_ClassifierPointsNormalized ==
    (obs.op = "process" /\ obs.evaluated)
        => \A i \in DOMAIN obs.puntos :
              /\ 0 <= obs.puntos[i][1] /\ obs.puntos[i][1] <= 10000
              /\ 0 <= obs.puntos[i][2] /\ obs.puntos[i][2] <= 10000

-----------------------------------------------------------------------------
\* The classifier's choice among layouts, checked under SpecClassifier.

\* the positions in LayoutNames of the layouts that have a match and whose
\* score on the points last given is menor_score
TiedLayouts ==
    LET pts == PuntosTest(obs.puntos)
    IN  {k \in DOMAIN LayoutNames :
            LET layout == GG_LAYOUTS(LayoutNames[k])
                lm == LayoutMatches(pts, layout)
            IN  /\ lm.matches > 0
                /\ Score(Len(pts), Len(layout), lm.matches, lm.error) = BestScore}

\* C23 (amended): when several layouts obtain the minimum score, the
\* classifier returns the one that comes first in GG_LAYOUTS; no layout tied
\* with it lists fewer seats.
C23_TieGoesToFirstListed ==
    (obs.op = "classify" /\ detectedFormat # Detectando)
        => \A k \in TiedLayouts :
              /\ \E j \in TiedLayouts : j <= k /\ detectedFormat = LayoutNames[j]
              /\ \A j \in TiedLayouts : detectedFormat = LayoutNames[j] => j <= k
              /\ Len(GG_LAYOUTS(detectedFormat)) <= Len(GG_LAYOUTS(LayoutNames[k]))

\* C23 witness: "8-Max" and "9-Max" share the minimum score and the result
\* is "8-Max".
C23_Witness ==
    /\ obs.op = "classify"
    /\ obs.puntos = <<(<<3100, 8000>>)>>
    /\ TiedLayouts = {5, 6}
    /\ BestScore < RejectionCeiling
    /\ detectedFormat = "8-Max"

\* C23 as stated: the layout returned has fewer canonical seats than every
\* other layout with the same minimum score.
C23_TieGoesToFewerSeats ==
    (obs.op = "classify" /\ detectedFormat # Detectando)
        => \A k \in TiedLayouts :
              LayoutNames[k] # detectedFormat
                 => Len(GG_LAYOUTS(detectedFormat)) < Len(GG_LAYOUTS(LayoutNames[k]))


C25_EmptySeatTermCountsSeats ==
    obs.op = "classify" =>
        LET pts == PuntosTest(obs.puntos)
        IN  \A n \in Range(LayoutNames) :
               LET layout == GG_LAYOUTS(n)
                   nearest(i) ==
                       CHOOSE k \in DOMAIN layout :
                           /\ Hypot2(pts[i], layout[k]) = MinDist2(pts[i], layout)
                           /\ \A j \in 1..(k - 1) :
                                 Hypot2(pts[i], layout[j]) # MinDist2(pts[i], layout)
                   taken == {nearest(i) :
                               i \in {m \in DOMAIN pts : IsMatch(pts[m], layout)}}
               IN  MatchesOf(n) > 0
                     => /\ (Len(layout) - MatchesOf(n)) * EmptySeatPenalty
                             = (Len(layout) - Cardinality(taken)) * EmptySeatPenalty
                        /\ (Len(layout) - MatchesOf(n)) * EmptySeatPenalty >= 0

-----------------------------------------------------------------------------
\* Region assignment with the table layout's rectangles configured.

MaxRegionCalls == 1

\* lines 393-399 for one card on a 1000x800 frame, with the hero rectangle
\* (0.40, 0.62, 0.60, 0.78) and the board row (y_center 0.45, height 0.14,
\* x from 0.35 to 0.65) configured, one of them, or neither
RegionCall ==
    /\ ticks < MaxRegionCalls
    /\ \E hero \in {NoRegion, <<40, 62, 60, 78>>},
          board \in {NoRegion,
                     [y_center |-> 45, height |-> 14, first_x |-> 35,
                      last_x |-> 65]},
          x \in {50, 200, 380, 500, 640, 800, 950},
          y \in {40, 160, 250, 300, 360, 420, 500, 560, 600, 700, 790} :
          LET cfg == [hero_region |-> hero, board_row |-> board]
          IN  obs' = [op |-> "region", evaluated |-> FALSE, puntos |-> <<>>,
                      matched |-> {}, cfg |-> cfg, x |-> x, y |-> y,
                      ctype |-> FrameItem(Det(x, y, "Ah", 90), TableFrame[1],
                                          TableFrame[2], cfg).ctype]
    /\ ticks' = ticks + 1
    /\ UNCHANGED <<running, stRunning, pc, idx, heroDispatch, errors, cameraOk,
                   camStopped, stopPc, frame, detections, heroActive, gs, dbg,
                   history, seats, nextId, lastHeroSeen, detectedFormat,
                   layoutCfg, clock, invoked, raised, stopAt, env, seen,
                   published, cam>>

SpecRegions == Constructed(TRUE) /\ [][RegionCall]_vars

\* C26: when the hero rectangle and the board row are configured, a
\* detection is assigned by the rectangles alone: outside both it is an
\* opponent's card, whatever its height in the frame.
C26_RectanglesAloneDecide ==
    (/\ obs.op = "region"
     /\ obs.cfg.hero_region # NoRegion
     /\ obs.cfg.board_row # NoRegion)
        => LET r == ClasificarPorLayout(obs.x, obs.y, TableFrame[1],
                                        TableFrame[2], obs.cfg)
           IN  obs.ctype = IF r = "none" THEN "opponent" ELSE r

-----------------------------------------------------------------------------
\* The stabiliser's clusters, checked under SpecCards.

\* the clusters an item is within tolerance of, and the one among them whose
\* centroid is nearest (the earliest, when two are equally near)
NearestCluster(clusters, it) ==
    LET near == {i \in DOMAIN clusters : InCluster(clusters[i], it)}
        d2(i) == (it.x * clusters[i].count - clusters[i].sum_x)
                   * (it.x * clusters[i].count - clusters[i].sum_x)
                 + (it.y * clusters[i].count - clusters[i].sum_y)
                   * (it.y * clusters[i].count - clusters[i].sum_y)
        closer(i, j) == d2(i) * clusters[j].count * clusters[j].count
                          < d2(j) * clusters[i].count * clusters[i].count
    IN  IF near = {} THEN 0
        ELSE CHOOSE i \in near :
                 /\ \A j \in near : ~closer(j, i)
                 /\ \A j \in near : j < i => closer(i, j)

\* clustering in which an item joins the nearest of the clusters it is within
\* tolerance of
RECURSIVE BuildNearest(_, _)
BuildNearest(clusters, items) ==
    IF items = <<>> THEN clusters
    ELSE LET it == Head(items)
             k == NearestCluster(clusters, it)
         IN  BuildNearest(IF k = 0 THEN Append(clusters, NewCluster(it))
                          ELSE [clusters EXCEPT ![k] = JoinCluster(@, it)],
                          Tail(items))

\* C27: the clusters of every region are those obtained when each detection
\* joins the nearest cluster it is within tolerance of and starts a new one
\* only when it is within tolerance of none.
C27_JoinsNearestCluster ==
    \A ctype \in {"hero", "board", "opponent"} :
        ClustersOf(history, ctype)
            = BuildNearest(<<>>, Candidates(history, ctype))


C29_OneTickNeverPublishes ==
    (gs.my_cards # <<>> \/ gs.board # <<>> \/ gs.opponents_cards # <<>>)
        => Cardinality({k \in DOMAIN history : history[k] # <<>>}) >= 2

-----------------------------------------------------------------------------
\* Matching in the seat registry, checked under SpecStream.

\* C30: in a registry evaluation every incoming centroid that has seats
\* within the horizontal and the vertical tolerance matches one with the
\* smallest horizontal distance; a matched seat has its last-seen time
\* refreshed and its counter raised, by one and with the position
\* 0.9*old + 0.1*observed when one centroid is in its reach; a centroid with
\* no seat in reach creates one CANDIDATE seat with count 1 at the centroid
\* (matched in turn by a later centroid in reach of it); seats not matched
\* keep position, counter and last-seen time.
C30_MatchOrCreate ==
    [][(ticks' # ticks /\ obs'.op = "process" /\ obs'.evaluated) =>
        \A cs \in {CurrentClusters(ConsolidarBuffer(history', "opponent"),
                                   frame'[1])} :
        LET ancho == frame'[1]
            within(c) == {i \in DOMAIN seats : WithinSeat(seats[i], c, ancho)}
            best(c) == {i \in within(c) :
                          \A j \in within(c) :
                              Abs(seats[i].x - c.x) <= Abs(seats[j].x - c.x)}
            alone(k) == \A m \in DOMAIN cs :
                           m # k => ~WithinSeat(cs[k], cs[m], ancho)
            fresh == {j \in DOMAIN seats' : seats'[j].id \notin SeatIds(seats)}
        IN  /\ \A k \in DOMAIN cs :
                  within(cs[k]) # {}
                     => \E i \in best(cs[k]) : seats[i].id \in obs'.matched
            /\ \A j \in DOMAIN seats' \ fresh :
                  LET t == seats'[j]
                      s == seats[CHOOSE i \in DOMAIN seats : seats[i].id = t.id]
                      reach == {k \in DOMAIN cs : WithinSeat(s, cs[k], ancho)}
                  IN  IF t.id \in obs'.matched
                      THEN /\ t.last = clock'
                           /\ t.count > s.count
                           /\ reach # {}
                           /\ \A k \in reach :
                                 reach = {k}
                                    => /\ t.count = s.count + 1
                                       /\ t.x = (9 * s.x + cs[k].x) \div 10
                                       /\ t.y = (9 * s.y + cs[k].y) \div 10
                      ELSE t = s
            /\ \A j \in fresh : seats'[j].last = clock' /\ seats'[j].count >= 1
            /\ \A k \in DOMAIN cs :
                  (within(cs[k]) = {} /\ alone(k))
                     => \E j \in fresh :
                           /\ seats'[j].x = cs[k].x
                           /\ seats'[j].y = cs[k].y
                           /\ seats'[j].count = 1
                           /\ ~seats'[j].confirmed
            /\ Cardinality(fresh) = nextId' - nextId
            /\ Cardinality(fresh)
                  <= Cardinality({k \in DOMAIN cs : within(cs[k]) = {}})]_vars

\* C30 witness: an evaluation has just matched a seat created earlier and
\* created a seat for a centroid out of every seat's reach.
C30_Witness ==
    /\ obs.op = "process"
    /\ obs.evaluated
    /\ \E i, j \in DOMAIN seats :
          /\ seats[i].id \in obs.matched
          /\ seats[i].count >= 2
          /\ seats[i].last = clock
          /\ seats[j].id \notin obs.matched
          /\ seats[j].count = 1
          /\ seats[j].last = clock
          /\ ~seats[j].confirmed

-----------------------------------------------------------------------------
\* What reaches the seat registry, checked under SpecStream.

\* C31: the registry is given every opponent-region positional cluster of
\* the buffer, resolved or not: after a tick on a usable frame each
\* opponent item of that tick has a seat within the matching tolerance that
\* was created or matched on that very tick.
C31_SingleTickReachesRegistry ==
    [][(ticks' # ticks /\ obs'.op = "process" /\ obs'.evaluated) =>
        \A it \in Range(history'[Len(history')]) :
            it.ctype = "opponent"
               => \E i \in DOMAIN seats' :
                     /\ WithinSeat(seats'[i], it, frame'[1])
                     /\ seats'[i].last = clock']_vars

-----------------------------------------------------------------------------
\* The dispatch of the stages, checked under Spec.

\* C32: within a tick the stages are invoked at most once each and in the
\* load order (the table sizer before the card detector); in a tick that
\* sampled hero_active as false the two heavy stages are not invoked, and by
\* the end of the tick every other loaded stage that defines process() was;
\* the card detector's tick feeds the registry the stabiliser's output of the
\* same tick and publishes the format the registry and classifier computed.
C32_StagesInLoadOrder ==
    /\ [](/\ \A i, j \in DOMAIN invoked :
                i < j => \E m, n \in DOMAIN LoadOrder :
                            /\ m < n
                            /\ LoadOrder[m] = invoked[i]
                            /\ LoadOrder[n] = invoked[j]
          /\ ~heroDispatch => Range(invoked) \cap HeavyStages = {})
    /\ [][TickEnds /\ ~heroDispatch =>
            Range(invoked) = {n \in Range(LoadOrder) : HasProcess(n)}
                                 \ HeavyStages]_vars
    /\ [][obs'.op = "process" /\ obs'.evaluated =>
            \E reg \in {GestionarAsientos(
                           ConsolidarBuffer(history', "opponent"),
                           frame[1], frame[2], clock, seats, nextId,
                           detectedFormat)} :
                /\ seats' = reg.seats
                /\ detectedFormat' = reg.format
                /\ dbg'.confirmed_seats = reg.result]_vars

\* C32 witness: an idle tick has gone through the whole load order and has
\* invoked the eight stages that are neither heavy nor without process().
C32_Witness ==
    /\ pc = "plugins"
    /\ ForLoopDone
    /\ ~heroDispatch
    /\ invoked = <<"self_check_plugin", "window_detector_plugin",
                   "input_handler", "vision_guard_plugin", "detectar_mesa",
                   "card_detector_plugin", "blinds_detector", "errores">>

\* C32 as stated: by the end of an idle tick every loaded stage other than
\* the two heavy ones was invoked.
C32_EveryOtherLoadedStageInvoked ==
    [][TickEnds /\ ~heroDispatch =>
          Range(invoked) = Range(LoadOrder) \ HeavyStages]_vars

-----------------------------------------------------------------------------
\* The registry's records, checked under SpecSeats.

\* C33: in every state of the registry a seat is CONFIRMED exactly when its
\* match count has reached SEAT_CREATION_FRAMES, and every seat's match count
\* is at least 1.
C33_ConfirmedIffThreshold ==
    \A i \in DOMAIN seats :
        /\ seats[i].confirmed <=> seats[i].count >= SEAT_CREATION_FRAMES
        /\ seats[i].count >= 1

\* C33 witness: a seat has just been promoted on its eighth match.
C33_Witness ==
    \E i \in DOMAIN seats :
        /\ seats[i].confirmed
        /\ seats[i].count = SEAT_CREATION_FRAMES
        /\ seats[i].last = clock

-----------------------------------------------------------------------------
\* The pace of promotion, checked under SpecStream.

\* C34: a tick raises a seat's match count by at most one and creates seats
\* with count 1, so that a seat is CONFIRMED no earlier than seven ticks
\* after the tick that created it.
C34_OneMatchPerTick ==
    [][ticks' # ticks =>
          \A j \in DOMAIN seats' :
              LET was == {i \in DOMAIN seats : seats[i].id = seats'[j].id}
              IN  /\ was = {} => seats'[j].count = 1
                  /\ \A i \in was : seats'[j].count <= seats[i].count + 1]_vars

-----------------------------------------------------------------------------
\* The classifier's verdict on what it cannot explain, checked under
\* SpecClassifier.

\* C35: given at least one confirmed seat, the classifier returns a layout
\* name exactly when some canonical layout has a seat within the match radius
\* of every evaluated point (the given ones and the hero's seat when it was
\* added), and the sentinel otherwise; it returns nothing else.
C35_NameIffSomeLayoutExplainsAll ==
    (obs.op = "classify" /\ obs.puntos # <<>>) =>
       LET pts == PuntosTest(obs.puntos)
           explains(n) == \A k \in DOMAIN pts : IsMatch(pts[k], GG_LAYOUTS(n))
       IN  /\ detectedFormat \in Range(LayoutNames)
                <=> \E n \in Range(LayoutNames) : explains(n)
           /\ detectedFormat \in Range(LayoutNames) \cup {Detectando}

-----------------------------------------------------------------------------
\* Seats past their timeout, checked under SpecSeats.

\* C36: in a registry evaluation a seat whose time since its last match has
\* passed its timeout (SEAT_CANDIDATE_TIMEOUT or SEAT_CONFIRMED_TIMEOUT) is
\* not matched and is absent afterwards, so that no seat is promoted by a
\* match that comes after its timeout.
C36_ExpiredSeatNeverMatched ==
    [][obs'.evaluated =>
          \A i \in DOMAIN seats :
              (clock' - seats[i].last
                  > (IF seats[i].confirmed THEN SEAT_CONFIRMED_TIMEOUT
                     ELSE SEAT_CANDIDATE_TIMEOUT))
              => /\ seats[i].id \notin obs'.matched
                 /\ seats[i].id \notin SeatIds(seats')
                 /\ \A j \in DOMAIN seats' :
                       seats'[j].id = seats[i].id
                          => seats'[j].confirmed = seats[i].confirmed]_vars

-----------------------------------------------------------------------------
\* How long the buffer remembers, checked under SpecStream.

\* C37: the buffer holds at most BUFFER_SIZE ticks; a tick with a frame puts
\* its accepted detections last and moves the earlier ticks up, dropping the
\* oldest of BUFFER_SIZE; and once the last BUFFER_SIZE ticks hold no
\* detection of a card, the card is in none of the hero, board and opponent
\* outputs, a region without detections in them having an empty output.
C37_ForgottenAfterBufferSize ==
    /\ [](/\ Len(history) <= BUFFER_SIZE
          /\ Len(history) = BUFFER_SIZE =>
                LET seenAs(t) == {it.label : it \in
                                    {i \in UNION {Range(history[k]) :
                                                    k \in DOMAIN history} :
                                       i.ctype = t}}
                IN  /\ Range(gs.my_cards) \subseteq seenAs("hero")
                    /\ Range(gs.board) \subseteq seenAs("board")
                    /\ \A g \in Range(gs.opponents_cards) :
                          Range(g) \subseteq seenAs("opponent"))
    /\ [][(ticks' # ticks /\ frame' # NoFrame) =>
            LET drop == IF Len(history) = BUFFER_SIZE THEN 1 ELSE 0
            IN  /\ Len(history') = Len(history) + 1 - drop
                /\ history'[Len(history')]
                      = FrameItems(detections', frame'[1], frame'[2], layoutCfg)
                /\ \A k \in 1..(Len(history') - 1) :
                      history'[k] = history[k + drop]]_vars

\* C37 witness: a flop and an opponent at the top of the table were shown
\* long enough to be published and to get a seat; six ticks without them
\* later the buffer holds no board card and the board output is empty.
C37_Witness ==
    /\ Len(history) = BUFFER_SIZE
    /\ \A k \in DOMAIN history :
          \A it \in Range(history[k]) : it.ctype # "board"
    /\ detections = TableA
    /\ nextId = 4
    /\ gs.board = <<>>
    /\ gs.my_cards = <<"Ah", "Kd">>

-----------------------------------------------------------------------------
\* Opponents one above the other, checked under SpecCards.

\* C38: after a registry evaluation, two opponents of the stabilised output
\* that are further apart vertically than the registry's vertical matching
\* tolerance each have a seat of their own within the matching tolerance,
\* however close they are horizontally.
C38_StackedOpponentsKeepTwoSeats ==
    [][(ticks' # ticks /\ obs'.op = "process" /\ obs'.evaluated) =>
        \A opp \in {ConsolidarBuffer(history', "opponent")} :
            \A a, b \in DOMAIN opp :
                10 * Abs(opp[a].y - opp[b].y) > 2 * frame'[1]
                   => \E i, j \in DOMAIN seats' :
                         /\ i # j
                         /\ WithinSeat(seats'[i], opp[a], frame'[1])
                         /\ WithinSeat(seats'[j], opp[b], frame'[1])]_vars

-----------------------------------------------------------------------------
(* CameraStream (src/plugins/camera.py): the producer thread that runs       *)
(* update(), stop() called from the thread of main_loop, and read().  The    *)
(* n-th read of the device that grabs a frame returns the frame <<n>>.       *)

MaxCameraReads == 3

\* if grabbed: self.frame = frame, written unconditionally (a faulty variant)
SlotAfterAny(c) == c.got

\* if grabbed: self.frame = frame
SlotAfter(c) == IF c.grabbed THEN c.got ELSE c.frame

\* CameraStream(...).start(): the device is opened (or fails to open), the
\* first frame is read into self.frame and the producer thread is started
CameraStart ==
    /\ cam.upc = "new"
    /\ \E opened \in BOOLEAN, ok \in BOOLEAN :
          /\ ok => opened
          /\ cam' = [cam EXCEPT !.opened = opened,
                                !.frame = IF ok THEN <<1>> ELSE NoFrame,
                                !.reads = 1,
                                !.stopped = FALSE,
                                !.upc = "while"]
    /\ UNCHANGED <<running, stRunning, pc, idx, heroDispatch, errors, cameraOk,
                   camStopped, stopPc, ticks, frame, detections, heroActive,
                   gs, dbg, history, seats, nextId, lastHeroSeen,
                   detectedFormat, layoutCfg, clock, invoked, raised, stopAt,
                   obs, env, seen, published>>

\* update(): one step of the producer thread; a read of a device that is
\* not open returns (False, None)
CameraUpdate ==
    /\ \/ /\ cam.upc = "while"
          /\ IF cam.stopped
             THEN cam' = [cam EXCEPT !.upc = "done"]
             ELSE /\ cam.reads < MaxCameraReads
                  /\ cam' = [cam EXCEPT !.upc = "read"]
       \/ /\ cam.upc = "read"
          /\ \E ok \in BOOLEAN :
                /\ ok => cam.opened
                /\ cam' = [cam EXCEPT
                             !.grabbed = ok,
                             !.got = IF ok THEN <<cam.reads + 1>> ELSE NoFrame,
                             !.reads = cam.reads + 1,
                             !.late = cam.late \/ cam.released,
                             !.upc = "store"]
       \/ /\ cam.upc = "store"
          /\ cam' = [cam EXCEPT !.frame = SlotAfter(cam), !.upc = "while"]
    /\ UNCHANGED <<running, stRunning, pc, idx, heroDispatch, errors, cameraOk,
                   camStopped, stopPc, ticks, frame, detections, heroActive,
                   gs, dbg, history, seats, nextId, lastHeroSeen,
                   detectedFormat, layoutCfg, clock, invoked, raised, stopAt,
                   obs, env, seen, published>>

\* stop(): self.stopped = True, then the device is released if it is open
CameraStop ==
    /\ \/ /\ cam.spc = "idle"
          /\ cam.upc # "new"
          /\ cam' = [cam EXCEPT !.stopped = TRUE, !.spc = "isOpened"]
       \/ /\ cam.spc = "isOpened"
          /\ cam' = [cam EXCEPT !.opened = FALSE,
                                !.released = cam.opened,
                                !.spc = "done"]
    /\ UNCHANGED <<running, stRunning, pc, idx, heroDispatch, errors, cameraOk,
                   camStopped, stopPc, ticks, frame, detections, heroActive,
                   gs, dbg, history, seats, nextId, lastHeroSeen,
                   detectedFormat, layoutCfg, clock, invoked, raised, stopAt,
                   obs, env, seen, published>>

\* read(): return self.frame
CameraRead ==
    /\ cam.upc # "new"
    /\ cam' = [cam EXCEPT !.out = cam.frame]
    /\ UNCHANGED <<running, stRunning, pc, idx, heroDispatch, errors, cameraOk,
                   camStopped, stopPc, ticks, frame, detections, heroActive,
                   gs, dbg, history, seats, nextId, lastHeroSeen,
                   detectedFormat, layoutCfg, clock, invoked, raised, stopAt,
                   obs, env, seen, published>>

SpecCamera ==
    Constructed(TRUE)
    /\ [][CameraStart \/ CameraUpdate \/ CameraStop \/ CameraRead]_vars

\* the producer thread keeps being scheduled
FairSpecCamera == SpecCamera /\ WF_vars(CameraUpdate)

\* C39: the producer thread never reads the capture device after stop() has
\* released it.
C39_NoReadAfterRelease == ~cam.late

\* C40: once stop() has set self.stopped the producer thread leaves its loop
\* and ends, after which self.frame is not written any more; self.frame is
\* only ever overwritten by update() with a frame it has just grabbed, so
\* that neither self.frame nor what read() returns goes back to None.
C40_ProducerEndsAndSlotKeepsFrames ==
    /\ cam.stopped ~> (cam.upc = "done")
    /\ [][cam.upc = "done" => cam'.upc = "done" /\ cam'.frame = cam.frame]_vars
    /\ [][(cam.upc # "new" /\ cam'.frame # cam.frame)
             => /\ cam.upc = "store"
                /\ cam.grabbed
                /\ cam'.frame = cam.got
                /\ cam.got = <<cam.reads>>]_vars
    /\ [][cam.frame # NoFrame => cam'.frame # NoFrame]_vars
    /\ [][cam'.out # cam.out => cam'.out = cam.frame]_vars
    /\ [][cam.out # NoFrame => cam'.out # NoFrame]_vars

\* C40 witness: stop() has returned, the producer thread has ended, and
\* read() returns the frame of the second read, grabbed before the stop.
C40_Witness ==
    /\ cam.stopped
    /\ cam.spc = "done"
    /\ cam.upc = "done"
    /\ cam.frame = <<2>>
    /\ cam.out = <<2>>

=============================================================================
